---- MODULE Spec2Model ----
(***************************************************************************)
(* State-machine model of the token program (programs/token): the twelve  *)
(* instruction handlers of processor/*.rs operating on host records that  *)
(* hold packed Mint, Account and Multisig state.                          *)
(*                                                                         *)
(* A record's data is kept field by field in its packed form: an optional *)
(* key is a (tag, body) pair, a flag is a byte, the account state is a    *)
(* byte.  Handlers unpack it into a value, work on the value and pack it  *)
(* back, as the code does.  64-bit quantities are scaled down to          *)
(* 0..U64Max.                                                              *)
(***************************************************************************)
EXTENDS Integers, Sequences, FiniteSets, TLC

\* ------------------------------------------------------------------------
\* Bounds and program constants
\* ------------------------------------------------------------------------
\* u64::MAX, scaled down.
U64Max == 2

MintLEN == 82
AccountLEN == 165
MultisigLEN == 355
MAX_SIGNERS == 11

\* Widths of the instruction codec, in bytes, scaled down: a Pubkey (32) and
\* a u64 (8); and the longest instruction data tried, after the first byte.
PubkeyBytes == 1
U64Bytes == 2
MaxRest == 5

\* ------------------------------------------------------------------------
\* Keys and host records
\* ------------------------------------------------------------------------
ZeroKey == "0"            \* Pubkey::default()
ProgramId == "P"          \* program_id handed to Processor::process
SystemProgram == "S"      \* owner of the wallets and of the rent sysvar
RentId == "R"             \* the rent sysvar

Wallets == {"A", "B", "D"}
MintKeys == {"M", "N"}
AccountKeys == {"X", "Y"}
MultisigKeys == {"G"}
ForeignKeys == {"H"}      \* a record of Multisig length owned by another program
RecordKeys == Wallets \cup MintKeys \cup AccountKeys \cup MultisigKeys \cup ForeignKeys \cup {RentId}

\* AccountInfo.owner: fixed by the host, never written by the program.
OwnerOf(k) == IF k \in MintKeys \cup AccountKeys \cup MultisigKeys
              THEN ProgramId ELSE SystemProgram

\* AccountInfo.data_len(): records are never resized.
DataLen(k) == IF k \in MintKeys THEN MintLEN
              ELSE IF k \in AccountKeys THEN AccountLEN
              ELSE IF k \in MultisigKeys \cup ForeignKeys THEN MultisigLEN
              ELSE 0

VARIABLES
    lamports,   \* lamports[k]: lamports of record k
    data,       \* data[k]: packed data of record k
    pc,         \* "idle", or "returned" right after Processor::process
    ix,         \* the instruction of the last call
    accounts,   \* the AccountInfo list of the last call
    result,     \* the ProgramResult of the last call
    revoked,    \* revoked[a]: the delegate the last successful Revoke on a
                \* removed, none since the last successful Approve on a
    unthawed,   \* unthawed[a]: a FreezeAccount on a succeeded and no
                \* ThawAccount on a has succeeded since
    wire,       \* instruction data: the bytes given to or produced by the
                \* instruction codec
    parsed,     \* what unpack returned for wire
    record,     \* the Mint, Account or Multisig value given to pack
    allowance,  \* allowance[a]: the amount of the last successful Approve on
                \* a and what the delegate has moved out of a since; both 0
                \* after a Revoke or a change of owner
    sealed      \* sealed[a]: the amount a held when a successful
                \* SetAuthority(FreezeAccount, none) on its Mint found it
                \* Frozen; none before that

vars == <<lamports, data, pc, ix, accounts, result, revoked, unthawed, wire, parsed, record, allowance, sealed>>

\* ------------------------------------------------------------------------
\* Results
\* ------------------------------------------------------------------------
Ok(v) == [ok |-> TRUE, val |-> v]
Er(e) == [ok |-> FALSE, err |-> e]

\* What a handler leaves behind: its ProgramResult and the record buffers.
Done(lam, dat) == [res |-> "Ok", lam |-> lam, dat |-> dat]
Fail(e, lam, dat) == [res |-> e, lam |-> lam, dat |-> dat]

\* ------------------------------------------------------------------------
\* COption (state/mod.rs) and its packed form (state/mint.rs, account.rs)
\* ------------------------------------------------------------------------
None == <<>>
Some(k) == <<k>>
is_some(o) == o # None
unwrap(o) == o[1]
unwrap_or(o, d) == IF is_some(o) THEN o[1] ELSE d

unpack_coption_pubkey(src) ==
    IF src.tag = 0 THEN Ok(None)
    ELSE IF src.tag = 1 THEN Ok(Some(src.body))
    ELSE Er("InvalidInstruction")

pack_coption_pubkey(src) ==
    IF is_some(src) THEN [tag |-> 1, body |-> unwrap(src)]
    ELSE [tag |-> 0, body |-> ZeroKey]

unpack_coption_u64(src) ==
    IF src.tag = 0 THEN Ok(None)
    ELSE IF src.tag = 1 THEN Ok(Some(src.body))
    ELSE Er("InvalidInstruction")

pack_coption_u64(src) ==
    IF is_some(src) THEN [tag |-> 1, body |-> unwrap(src)]
    ELSE [tag |-> 0, body |-> 0]

\* ------------------------------------------------------------------------
\* Checked arithmetic (utils/assertions.rs)
\* ------------------------------------------------------------------------
\* Mutant of checked_add: the sum wraps around instead of being refused.
checked_add_wrapping(a, b) == Ok((a + b) % (U64Max + 1))

checked_add(a, b) == IF a + b > U64Max THEN Er("Overflow") ELSE Ok(a + b)

checked_sub(a, b) == IF a < b THEN Er("InsufficientFunds") ELSE Ok(a - b)

\* ------------------------------------------------------------------------
\* Mint (state/mint.rs)
\* ------------------------------------------------------------------------
Mint_unpack(input) ==
    LET mint_authority == unpack_coption_pubkey(input.mint_authority)
        freeze_authority == unpack_coption_pubkey(input.freeze_authority)
    IN  IF ~mint_authority.ok THEN mint_authority
        ELSE IF ~freeze_authority.ok THEN freeze_authority
        ELSE Ok([mint_authority |-> mint_authority.val,
                 supply |-> input.supply,
                 decimals |-> input.decimals,
                 is_initialized |-> (input.is_initialized # 0),
                 freeze_authority |-> freeze_authority.val])

Mint_pack(mint) ==
    [mint_authority |-> pack_coption_pubkey(mint.mint_authority),
     supply |-> mint.supply,
     decimals |-> mint.decimals,
     is_initialized |-> IF mint.is_initialized THEN 1 ELSE 0,
     freeze_authority |-> pack_coption_pubkey(mint.freeze_authority)]

\* ------------------------------------------------------------------------
\* Account (state/account.rs)
\* ------------------------------------------------------------------------
Uninitialized == "Uninitialized"
Initialized == "Initialized"
Frozen == "Frozen"

AccountState_from_u8(value) ==
    IF value = 0 THEN Ok(Uninitialized)
    ELSE IF value = 1 THEN Ok(Initialized)
    ELSE IF value = 2 THEN Ok(Frozen)
    ELSE Er("InvalidInstruction")

\* Mutant of AccountState::to_u8: Frozen is written as the byte of
\* Uninitialized.
AccountState_to_u8_frozen_zero(s) ==
    IF s = Uninitialized THEN 0 ELSE IF s = Initialized THEN 1 ELSE 0

AccountState_to_u8(s) ==
    IF s = Uninitialized THEN 0 ELSE IF s = Initialized THEN 1 ELSE 2

is_frozen(account) == account.state = Frozen
is_initialized(account) == account.state # Uninitialized

Account_unpack(input) ==
    LET delegate == unpack_coption_pubkey(input.delegate)
        state == AccountState_from_u8(input.state)
        is_native == unpack_coption_u64(input.is_native)
        close_authority == unpack_coption_pubkey(input.close_authority)
    IN  IF ~delegate.ok THEN delegate
        ELSE IF ~state.ok THEN state
        ELSE IF ~is_native.ok THEN is_native
        ELSE IF ~close_authority.ok THEN close_authority
        ELSE Ok([mint |-> input.mint,
                 owner |-> input.owner,
                 amount |-> input.amount,
                 delegate |-> delegate.val,
                 state |-> state.val,
                 is_native |-> is_native.val,
                 delegated_amount |-> input.delegated_amount,
                 close_authority |-> close_authority.val])

Account_pack(account) ==
    [mint |-> account.mint,
     owner |-> account.owner,
     amount |-> account.amount,
     delegate |-> pack_coption_pubkey(account.delegate),
     state |-> AccountState_to_u8(account.state),
     is_native |-> pack_coption_u64(account.is_native),
     delegated_amount |-> account.delegated_amount,
     close_authority |-> pack_coption_pubkey(account.close_authority)]

\* ------------------------------------------------------------------------
\* Multisig (state/multisig.rs)
\* ------------------------------------------------------------------------
Multisig_unpack(input) ==
    IF input.n > MAX_SIGNERS THEN Er("InvalidMultisigConfig")
    ELSE IF input.m > input.n THEN Er("InvalidMultisigConfig")
    ELSE IF input.is_initialized # 0 /\ input.m = 0 THEN Er("InvalidMultisigConfig")
    ELSE Ok([m |-> input.m,
             n |-> input.n,
             is_initialized |-> (input.is_initialized # 0),
             signers |-> input.signers])

Multisig_pack(multisig) ==
    [m |-> multisig.m,
     n |-> multisig.n,
     is_initialized |-> IF multisig.is_initialized THEN 1 ELSE 0,
     signers |-> multisig.signers]

\* ------------------------------------------------------------------------
\* Pack::unpack_from_slice / pack_into_slice (state/mod.rs): the length
\* check in front of unpack and pack.  k is the record whose buffer is read
\* or written.
\* ------------------------------------------------------------------------
unpack_from_slice(len, unpacked, k) ==
    IF DataLen(k) # len THEN Er("InvalidAccountData") ELSE unpacked

pack_into_slice(len, packed, dat, k) ==
    IF DataLen(k) # len THEN Er("InvalidAccountData")
    ELSE Ok([dat EXCEPT ![k] = packed])

\* A buffer of the record's length, all bytes zero.
ZeroData(k) ==
    IF DataLen(k) = MintLEN THEN
        [mint_authority |-> [tag |-> 0, body |-> ZeroKey], supply |-> 0,
         decimals |-> 0, is_initialized |-> 0,
         freeze_authority |-> [tag |-> 0, body |-> ZeroKey]]
    ELSE IF DataLen(k) = AccountLEN THEN
        [mint |-> ZeroKey, owner |-> ZeroKey, amount |-> 0,
         delegate |-> [tag |-> 0, body |-> ZeroKey], state |-> 0,
         is_native |-> [tag |-> 0, body |-> 0], delegated_amount |-> 0,
         close_authority |-> [tag |-> 0, body |-> ZeroKey]]
    ELSE IF DataLen(k) = MultisigLEN THEN
        [m |-> 0, n |-> 0, is_initialized |-> 0,
         signers |-> [i \in 1..MAX_SIGNERS |-> ZeroKey]]
    ELSE <<>>

\* ------------------------------------------------------------------------
\* Assertions (utils/assertions.rs).  Each yields "Ok" or the error.
\* ------------------------------------------------------------------------
assert_owned_by(account, owner) ==
    IF OwnerOf(account.key) # owner THEN "InvalidAccountOwner" ELSE "Ok"

assert_writable(account) ==
    IF ~account.is_writable THEN "InvalidAccountData" ELSE "Ok"

assert_data_length(account, expected) ==
    IF DataLen(account.key) # expected THEN "InvalidAccountDataLength" ELSE "Ok"

\* Rent::is_exempt of the host's rent oracle: one lamport is the scaled
\* minimum balance of every record size.
assert_rent_exempt(lam, account) ==
    IF ~(lam[account.key] >= 1) THEN "NotRentExempt" ELSE "Ok"

\* Rent::from_account_info: the record must be the rent sysvar.
Rent_from_account_info(rent_info) ==
    IF rent_info.key # RentId THEN "InvalidArgument" ELSE "Ok"

\* The first error of a list of checks made in order, "Ok" when all pass.
RECURSIVE FirstError(_)
FirstError(checks) ==
    IF checks = <<>> THEN "Ok"
    ELSE IF Head(checks) # "Ok" THEN Head(checks)
    ELSE FirstError(Tail(checks))

\* ------------------------------------------------------------------------
\* Authority validation (utils/authority.rs)
\* ------------------------------------------------------------------------
\* Mutant of validate_single_signer: the is_signer flag is not consulted.
validate_single_signer_unsigned(expected_authority, authority_info) ==
    IF authority_info.key # expected_authority THEN "InvalidAuthority"
    ELSE "Ok"

validate_single_signer(expected_authority, authority_info) ==
    IF authority_info.key # expected_authority THEN "InvalidAuthority"
    ELSE IF ~authority_info.is_signer THEN "MissingRequiredSignature"
    ELSE "Ok"

\* Mutant of is_valid_signer: every slot of the signers array is searched.
is_valid_signer_all_slots(multisig, key) ==
    \E i \in 1..MAX_SIGNERS : multisig.signers[i] = key

\* signers.iter().take(n).any(|s| s == key)
is_valid_signer(multisig, key) ==
    \E i \in 1..MAX_SIGNERS : i <= multisig.n /\ multisig.signers[i] = key

\* The loop over signer_accounts: the count, or -1 once the u8 counter
\* overflows.
RECURSIVE valid_signer_count(_, _, _)
valid_signer_count(multisig, signer_accounts, count) ==
    IF signer_accounts = <<>> THEN count
    ELSE LET signer_account == Head(signer_accounts)
         IN  IF ~signer_account.is_signer
             THEN valid_signer_count(multisig, Tail(signer_accounts), count)
             ELSE IF is_valid_signer(multisig, signer_account.key)
             THEN IF count + 1 > 255 THEN -1
                  ELSE valid_signer_count(multisig, Tail(signer_accounts), count + 1)
             ELSE valid_signer_count(multisig, Tail(signer_accounts), count)

\* Mutant of validate_multisig: a key presented in several signed records is
\* counted once.
validate_multisig_distinct_keys(dat, program_id, expected_authority, multisig_info, signer_accounts) ==
    IF multisig_info.key # expected_authority THEN "InvalidAuthority"
    ELSE IF OwnerOf(multisig_info.key) # program_id THEN "InvalidAccountOwner"
    ELSE LET multisig == unpack_from_slice(MultisigLEN, Multisig_unpack(dat[multisig_info.key]), multisig_info.key)
         IN  IF ~multisig.ok THEN multisig.err
             ELSE IF ~multisig.val.is_initialized THEN "UninitializedAccount"
             ELSE LET count == Cardinality({signer_accounts[i].key : i \in
                                   {j \in 1..Len(signer_accounts) :
                                       /\ signer_accounts[j].is_signer
                                       /\ is_valid_signer(multisig.val, signer_accounts[j].key)}})
                  IN  IF count < 0 THEN "Overflow"
                      ELSE IF count < multisig.val.m THEN "NotEnoughSigners"
                      ELSE "Ok"

validate_multisig(dat, program_id, expected_authority, multisig_info, signer_accounts) ==
    IF multisig_info.key # expected_authority THEN "InvalidAuthority"
    ELSE IF OwnerOf(multisig_info.key) # program_id THEN "InvalidAccountOwner"
    ELSE LET multisig == unpack_from_slice(MultisigLEN, Multisig_unpack(dat[multisig_info.key]), multisig_info.key)
         IN  IF ~multisig.ok THEN multisig.err
             ELSE IF ~multisig.val.is_initialized THEN "UninitializedAccount"
             ELSE LET count == valid_signer_count(multisig.val, signer_accounts, 0)
                  IN  IF count < 0 THEN "Overflow"
                      ELSE IF count < multisig.val.m THEN "NotEnoughSigners"
                      ELSE "Ok"

\* Mutant of validate_authority: the owning program of the record is not
\* looked at.
validate_authority_by_length(dat, program_id, expected_authority, authority_info, signer_accounts) ==
    LET is_multisig == DataLen(authority_info.key) = MultisigLEN
    IN  IF is_multisig
        THEN validate_multisig(dat, program_id, expected_authority, authority_info, signer_accounts)
        ELSE validate_single_signer(expected_authority, authority_info)

validate_authority(dat, program_id, expected_authority, authority_info, signer_accounts) ==
    LET is_multisig == DataLen(authority_info.key) = MultisigLEN
                       /\ OwnerOf(authority_info.key) = program_id
    IN  IF is_multisig
        THEN validate_multisig(dat, program_id, expected_authority, authority_info, signer_accounts)
        ELSE validate_single_signer(expected_authority, authority_info)

\* Mutant of validate_owner_or_delegate: the presenter is taken for the
\* delegate as soon as it has signed, its key is not compared.
validate_owner_or_delegate_any_signer(dat, program_id, account_owner, account_delegate, authority_info, signer_accounts) ==
    IF validate_authority(dat, program_id, account_owner, authority_info, signer_accounts) = "Ok"
    THEN Ok(FALSE)
    ELSE IF is_some(account_delegate) /\ authority_info.is_signer
    THEN Ok(TRUE)
    ELSE Er("InvalidAuthority")

\* Mutant of validate_owner_or_delegate: the delegate is tried before the
\* owner.
validate_owner_or_delegate_delegate_first(dat, program_id, account_owner, account_delegate, authority_info, signer_accounts) ==
    IF is_some(account_delegate)
       /\ validate_authority(dat, program_id, unwrap(account_delegate),
                             authority_info, signer_accounts) = "Ok"
    THEN Ok(TRUE)
    ELSE IF validate_authority(dat, program_id, account_owner, authority_info, signer_accounts) = "Ok"
    THEN Ok(FALSE)
    ELSE Er("InvalidAuthority")

\* Mutant of validate_owner_or_delegate: when neither validates, the error of
\* the owner validation is returned.
validate_owner_or_delegate_owner_error(dat, program_id, account_owner, account_delegate, authority_info, signer_accounts) ==
    IF validate_authority(dat, program_id, account_owner, authority_info, signer_accounts) = "Ok"
    THEN Ok(FALSE)
    ELSE IF is_some(account_delegate)
            /\ validate_authority(dat, program_id, unwrap(account_delegate),
                                  authority_info, signer_accounts) = "Ok"
    THEN Ok(TRUE)
    ELSE Er(validate_authority(dat, program_id, account_owner, authority_info, signer_accounts))

\* Ok(FALSE): the owner was used; Ok(TRUE): the delegate was used.
validate_owner_or_delegate(dat, program_id, account_owner, account_delegate, authority_info, signer_accounts) ==
    IF validate_authority(dat, program_id, account_owner, authority_info, signer_accounts) = "Ok"
    THEN Ok(FALSE)
    ELSE IF is_some(account_delegate)
            /\ validate_authority(dat, program_id, unwrap(account_delegate),
                                  authority_info, signer_accounts) = "Ok"
    THEN Ok(TRUE)
    ELSE Er("InvalidAuthority")

\* account_info_iter.cloned().collect(): the records after the first n.
Rest(accts, n) == SubSeq(accts, n + 1, Len(accts))

\* ------------------------------------------------------------------------
\* InitializeMint (processor/initialize_mint.rs)
\* ------------------------------------------------------------------------
initialize_mint_process(lam, dat, program_id, accts, decimals, mint_authority, freeze_authority) ==
    IF Len(accts) < 2 THEN Fail("NotEnoughAccountKeys", lam, dat)
    ELSE
    LET mint_info == accts[1]
        rent_info == accts[2]
        pre == FirstError(<<Rent_from_account_info(rent_info),
                            assert_owned_by(mint_info, program_id),
                            assert_writable(mint_info),
                            assert_data_length(mint_info, MintLEN),
                            assert_rent_exempt(lam, mint_info)>>)
    IN  IF pre # "Ok" THEN Fail(pre, lam, dat)
        ELSE
        LET loaded == unpack_from_slice(MintLEN, Mint_unpack(dat[mint_info.key]), mint_info.key)
        IN  IF ~loaded.ok THEN Fail(loaded.err, lam, dat)
            ELSE IF loaded.val.is_initialized THEN Fail("AlreadyInitialized", lam, dat)
            ELSE
            LET mint == [mint_authority |-> Some(mint_authority),
                         supply |-> 0,
                         decimals |-> decimals,
                         is_initialized |-> TRUE,
                         freeze_authority |-> freeze_authority]
                saved == pack_into_slice(MintLEN, Mint_pack(mint), dat, mint_info.key)
            IN  IF ~saved.ok THEN Fail(saved.err, lam, dat)
                ELSE Done(lam, saved.val)

\* ------------------------------------------------------------------------
\* InitializeAccount (processor/initialize_account.rs)
\* ------------------------------------------------------------------------
\* Mutant of initialize_account_process: only the state Initialized counts
\* as initialized, a Frozen Account is initialized over.
initialize_account_process_frozen_again(lam, dat, program_id, accts) ==
    IF Len(accts) < 4 THEN Fail("NotEnoughAccountKeys", lam, dat)
    ELSE
    LET account_info == accts[1]
        mint_info == accts[2]
        owner_info == accts[3]
        rent_info == accts[4]
        pre == FirstError(<<Rent_from_account_info(rent_info),
                            assert_owned_by(account_info, program_id),
                            assert_writable(account_info),
                            assert_data_length(account_info, AccountLEN),
                            assert_rent_exempt(lam, account_info),
                            assert_owned_by(mint_info, program_id),
                            assert_data_length(mint_info, MintLEN)>>)
    IN  IF pre # "Ok" THEN Fail(pre, lam, dat)
        ELSE
        LET mint == unpack_from_slice(MintLEN, Mint_unpack(dat[mint_info.key]), mint_info.key)
        IN  IF ~mint.ok THEN Fail(mint.err, lam, dat)
            ELSE IF ~mint.val.is_initialized THEN Fail("UninitializedAccount", lam, dat)
            ELSE
            LET loaded == unpack_from_slice(AccountLEN, Account_unpack(dat[account_info.key]), account_info.key)
            IN  IF ~loaded.ok THEN Fail(loaded.err, lam, dat)
                ELSE IF loaded.val.state = Initialized THEN Fail("AlreadyInitialized", lam, dat)
                ELSE
                LET account == [mint |-> mint_info.key,
                                owner |-> owner_info.key,
                                amount |-> 0,
                                delegate |-> None,
                                state |-> Initialized,
                                is_native |-> None,
                                delegated_amount |-> 0,
                                close_authority |-> None]
                    saved == pack_into_slice(AccountLEN, Account_pack(account), dat, account_info.key)
                IN  IF ~saved.ok THEN Fail(saved.err, lam, dat)
                    ELSE Done(lam, saved.val)

\* Mutant of initialize_account_process: the Mint is not required to be
\* initialized.
initialize_account_process_any_mint(lam, dat, program_id, accts) ==
    IF Len(accts) < 4 THEN Fail("NotEnoughAccountKeys", lam, dat)
    ELSE
    LET account_info == accts[1]
        mint_info == accts[2]
        owner_info == accts[3]
        rent_info == accts[4]
        pre == FirstError(<<Rent_from_account_info(rent_info),
                            assert_owned_by(account_info, program_id),
                            assert_writable(account_info),
                            assert_data_length(account_info, AccountLEN),
                            assert_rent_exempt(lam, account_info),
                            assert_owned_by(mint_info, program_id),
                            assert_data_length(mint_info, MintLEN)>>)
    IN  IF pre # "Ok" THEN Fail(pre, lam, dat)
        ELSE
        LET mint == unpack_from_slice(MintLEN, Mint_unpack(dat[mint_info.key]), mint_info.key)
        IN  IF ~mint.ok THEN Fail(mint.err, lam, dat)
            ELSE
            LET loaded == unpack_from_slice(AccountLEN, Account_unpack(dat[account_info.key]), account_info.key)
            IN  IF ~loaded.ok THEN Fail(loaded.err, lam, dat)
                ELSE IF is_initialized(loaded.val) THEN Fail("AlreadyInitialized", lam, dat)
                ELSE
                LET account == [mint |-> mint_info.key,
                                owner |-> owner_info.key,
                                amount |-> 0,
                                delegate |-> None,
                                state |-> Initialized,
                                is_native |-> None,
                                delegated_amount |-> 0,
                                close_authority |-> None]
                    saved == pack_into_slice(AccountLEN, Account_pack(account), dat, account_info.key)
                IN  IF ~saved.ok THEN Fail(saved.err, lam, dat)
                    ELSE Done(lam, saved.val)

\* Mutant of initialize_account_process: an initialized Account is
\* initialized over.
initialize_account_process_no_guard(lam, dat, program_id, accts) ==
    IF Len(accts) < 4 THEN Fail("NotEnoughAccountKeys", lam, dat)
    ELSE
    LET account_info == accts[1]
        mint_info == accts[2]
        owner_info == accts[3]
        rent_info == accts[4]
        pre == FirstError(<<Rent_from_account_info(rent_info),
                            assert_owned_by(account_info, program_id),
                            assert_writable(account_info),
                            assert_data_length(account_info, AccountLEN),
                            assert_rent_exempt(lam, account_info),
                            assert_owned_by(mint_info, program_id),
                            assert_data_length(mint_info, MintLEN)>>)
    IN  IF pre # "Ok" THEN Fail(pre, lam, dat)
        ELSE
        LET mint == unpack_from_slice(MintLEN, Mint_unpack(dat[mint_info.key]), mint_info.key)
        IN  IF ~mint.ok THEN Fail(mint.err, lam, dat)
            ELSE IF ~mint.val.is_initialized THEN Fail("UninitializedAccount", lam, dat)
            ELSE
            LET loaded == unpack_from_slice(AccountLEN, Account_unpack(dat[account_info.key]), account_info.key)
            IN  IF ~loaded.ok THEN Fail(loaded.err, lam, dat)
                ELSE
                LET account == [mint |-> mint_info.key,
                                owner |-> owner_info.key,
                                amount |-> 0,
                                delegate |-> None,
                                state |-> Initialized,
                                is_native |-> None,
                                delegated_amount |-> 0,
                                close_authority |-> None]
                    saved == pack_into_slice(AccountLEN, Account_pack(account), dat, account_info.key)
                IN  IF ~saved.ok THEN Fail(saved.err, lam, dat)
                    ELSE Done(lam, saved.val)

initialize_account_process(lam, dat, program_id, accts) ==
    IF Len(accts) < 4 THEN Fail("NotEnoughAccountKeys", lam, dat)
    ELSE
    LET account_info == accts[1]
        mint_info == accts[2]
        owner_info == accts[3]
        rent_info == accts[4]
        pre == FirstError(<<Rent_from_account_info(rent_info),
                            assert_owned_by(account_info, program_id),
                            assert_writable(account_info),
                            assert_data_length(account_info, AccountLEN),
                            assert_rent_exempt(lam, account_info),
                            assert_owned_by(mint_info, program_id),
                            assert_data_length(mint_info, MintLEN)>>)
    IN  IF pre # "Ok" THEN Fail(pre, lam, dat)
        ELSE
        LET mint == unpack_from_slice(MintLEN, Mint_unpack(dat[mint_info.key]), mint_info.key)
        IN  IF ~mint.ok THEN Fail(mint.err, lam, dat)
            ELSE IF ~mint.val.is_initialized THEN Fail("UninitializedAccount", lam, dat)
            ELSE
            LET loaded == unpack_from_slice(AccountLEN, Account_unpack(dat[account_info.key]), account_info.key)
            IN  IF ~loaded.ok THEN Fail(loaded.err, lam, dat)
                ELSE IF is_initialized(loaded.val) THEN Fail("AlreadyInitialized", lam, dat)
                ELSE
                LET account == [mint |-> mint_info.key,
                                owner |-> owner_info.key,
                                amount |-> 0,
                                delegate |-> None,
                                state |-> Initialized,
                                is_native |-> None,
                                delegated_amount |-> 0,
                                close_authority |-> None]
                    saved == pack_into_slice(AccountLEN, Account_pack(account), dat, account_info.key)
                IN  IF ~saved.ok THEN Fail(saved.err, lam, dat)
                    ELSE Done(lam, saved.val)

\* ------------------------------------------------------------------------
\* InitializeMultisig (processor/initialize_multisig.rs)
\* ------------------------------------------------------------------------
\* Mutant of initialize_multisig_process: the threshold is not compared with
\* the number of signers.
initialize_multisig_process_any_m(lam, dat, program_id, accts, m) ==
    IF Len(accts) < 2 THEN Fail("NotEnoughAccountKeys", lam, dat)
    ELSE
    LET multisig_info == accts[1]
        rent_info == accts[2]
        signer_infos == Rest(accts, 2)
        n == Len(signer_infos)
        pre == FirstError(<<Rent_from_account_info(rent_info),
                            assert_owned_by(multisig_info, program_id),
                            assert_writable(multisig_info),
                            assert_data_length(multisig_info, MultisigLEN),
                            assert_rent_exempt(lam, multisig_info)>>)
    IN  IF pre # "Ok" THEN Fail(pre, lam, dat)
        ELSE IF n < 1 \/ n > MAX_SIGNERS THEN Fail("InvalidMultisigConfig", lam, dat)
        ELSE IF m < 1 THEN Fail("InvalidMultisigConfig", lam, dat)
        ELSE
        LET loaded == unpack_from_slice(MultisigLEN, Multisig_unpack(dat[multisig_info.key]), multisig_info.key)
        IN  IF ~loaded.ok THEN Fail(loaded.err, lam, dat)
            ELSE IF loaded.val.is_initialized THEN Fail("AlreadyInitialized", lam, dat)
            ELSE
            LET multisig == [m |-> m,
                             n |-> n,
                             is_initialized |-> TRUE,
                             signers |-> [i \in 1..MAX_SIGNERS |->
                                 IF i <= n THEN signer_infos[i].key ELSE ZeroKey]]
                saved == pack_into_slice(MultisigLEN, Multisig_pack(multisig), dat, multisig_info.key)
            IN  IF ~saved.ok THEN Fail(saved.err, lam, dat)
                ELSE Done(lam, saved.val)

initialize_multisig_process(lam, dat, program_id, accts, m) ==
    IF Len(accts) < 2 THEN Fail("NotEnoughAccountKeys", lam, dat)
    ELSE
    LET multisig_info == accts[1]
        rent_info == accts[2]
        signer_infos == Rest(accts, 2)
        n == Len(signer_infos)
        pre == FirstError(<<Rent_from_account_info(rent_info),
                            assert_owned_by(multisig_info, program_id),
                            assert_writable(multisig_info),
                            assert_data_length(multisig_info, MultisigLEN),
                            assert_rent_exempt(lam, multisig_info)>>)
    IN  IF pre # "Ok" THEN Fail(pre, lam, dat)
        ELSE IF n < 1 \/ n > MAX_SIGNERS THEN Fail("InvalidMultisigConfig", lam, dat)
        ELSE IF m < 1 \/ m > n THEN Fail("InvalidMultisigConfig", lam, dat)
        ELSE
        LET loaded == unpack_from_slice(MultisigLEN, Multisig_unpack(dat[multisig_info.key]), multisig_info.key)
        IN  IF ~loaded.ok THEN Fail(loaded.err, lam, dat)
            ELSE IF loaded.val.is_initialized THEN Fail("AlreadyInitialized", lam, dat)
            ELSE
            LET multisig == [m |-> m,
                             n |-> n,
                             is_initialized |-> TRUE,
                             signers |-> [i \in 1..MAX_SIGNERS |->
                                 IF i <= n THEN signer_infos[i].key ELSE ZeroKey]]
                saved == pack_into_slice(MultisigLEN, Multisig_pack(multisig), dat, multisig_info.key)
            IN  IF ~saved.ok THEN Fail(saved.err, lam, dat)
                ELSE Done(lam, saved.val)

\* Mutant of delegate_allowance: the delegate is kept when nothing is left
\* of the allowance.
delegate_allowance_keep(account, used_delegate, amount) ==
    IF used_delegate
    THEN IF account.delegated_amount < amount THEN Er("InsufficientDelegatedAmount")
         ELSE LET left == checked_sub(account.delegated_amount, amount)
              IN  IF ~left.ok THEN left
                  ELSE Ok([account EXCEPT !.delegated_amount = left.val])
    ELSE Ok(account)

\* The allowance bookkeeping shared by Transfer and Burn once the authority
\* validated: the account after it, or the error.
\* Mutant of delegate_allowance: the allowance is compared with the amount
\* and not lowered by it.
delegate_allowance_not_lowered(account, used_delegate, amount) ==
    IF used_delegate
    THEN IF account.delegated_amount < amount THEN Er("InsufficientDelegatedAmount")
         ELSE LET left == checked_sub(account.delegated_amount, 0)
              IN  IF ~left.ok THEN left
                  ELSE Ok([account EXCEPT
                               !.delegated_amount = left.val,
                               !.delegate = IF left.val = 0 THEN None ELSE @])
    ELSE Ok(account)

delegate_allowance(account, used_delegate, amount) ==
    IF used_delegate
    THEN IF account.delegated_amount < amount THEN Er("InsufficientDelegatedAmount")
         ELSE LET left == checked_sub(account.delegated_amount, amount)
              IN  IF ~left.ok THEN left
                  ELSE Ok([account EXCEPT
                               !.delegated_amount = left.val,
                               !.delegate = IF left.val = 0 THEN None ELSE @])
    ELSE Ok(account)

\* ------------------------------------------------------------------------
\* Transfer (processor/transfer.rs)
\* ------------------------------------------------------------------------
\* Mutant of transfer_process: the source is saved before its amount is
\* lowered.
transfer_process_no_debit(lam, dat, program_id, accts, amount) ==
    IF Len(accts) < 3 THEN Fail("NotEnoughAccountKeys", lam, dat)
    ELSE
    LET source_info == accts[1]
        dest_info == accts[2]
        authority_info == accts[3]
        signer_accounts == Rest(accts, 3)
        pre == FirstError(<<assert_owned_by(source_info, program_id),
                            assert_writable(source_info),
                            assert_data_length(source_info, AccountLEN),
                            assert_owned_by(dest_info, program_id),
                            assert_writable(dest_info),
                            assert_data_length(dest_info, AccountLEN)>>)
    IN  IF pre # "Ok" THEN Fail(pre, lam, dat)
        ELSE IF source_info.key = dest_info.key THEN Fail("SelfTransfer", lam, dat)
        ELSE
        LET source == unpack_from_slice(AccountLEN, Account_unpack(dat[source_info.key]), source_info.key)
            dest == unpack_from_slice(AccountLEN, Account_unpack(dat[dest_info.key]), dest_info.key)
        IN  IF ~source.ok THEN Fail(source.err, lam, dat)
            ELSE IF ~dest.ok THEN Fail(dest.err, lam, dat)
            ELSE IF ~is_initialized(source.val) THEN Fail("UninitializedAccount", lam, dat)
            ELSE IF ~is_initialized(dest.val) THEN Fail("UninitializedAccount", lam, dat)
            ELSE IF is_frozen(source.val) THEN Fail("AccountFrozen", lam, dat)
            ELSE IF is_frozen(dest.val) THEN Fail("AccountFrozen", lam, dat)
            ELSE IF source.val.mint # dest.val.mint THEN Fail("MintMismatch", lam, dat)
            ELSE IF source.val.amount < amount THEN Fail("InsufficientFunds", lam, dat)
            ELSE
            LET used_delegate == validate_owner_or_delegate(dat, program_id,
                                     source.val.owner, source.val.delegate,
                                     authority_info, signer_accounts)
            IN  IF ~used_delegate.ok THEN Fail(used_delegate.err, lam, dat)
                ELSE
                LET allowed == delegate_allowance(source.val, used_delegate.val, amount)
                IN  IF ~allowed.ok THEN Fail(allowed.err, lam, dat)
                    ELSE
                    LET source_amount == checked_sub(allowed.val.amount, amount)
                        dest_amount == checked_add(dest.val.amount, amount)
                    IN  IF ~source_amount.ok THEN Fail(source_amount.err, lam, dat)
                        ELSE IF ~dest_amount.ok THEN Fail(dest_amount.err, lam, dat)
                        ELSE
                        LET saved1 == pack_into_slice(AccountLEN,
                                          Account_pack(allowed.val),
                                          dat, source_info.key)
                        IN  IF ~saved1.ok THEN Fail(saved1.err, lam, dat)
                            ELSE
                            LET saved2 == pack_into_slice(AccountLEN,
                                              Account_pack([dest.val EXCEPT !.amount = dest_amount.val]),
                                              saved1.val, dest_info.key)
                            IN  IF ~saved2.ok THEN Fail(saved2.err, lam, saved1.val)
                                ELSE Done(lam, saved2.val)

\* Mutant of transfer_process: the balance is compared after the authority
\* has been validated.
transfer_process_authority_first(lam, dat, program_id, accts, amount) ==
    IF Len(accts) < 3 THEN Fail("NotEnoughAccountKeys", lam, dat)
    ELSE
    LET source_info == accts[1]
        dest_info == accts[2]
        authority_info == accts[3]
        signer_accounts == Rest(accts, 3)
        pre == FirstError(<<assert_owned_by(source_info, program_id),
                            assert_writable(source_info),
                            assert_data_length(source_info, AccountLEN),
                            assert_owned_by(dest_info, program_id),
                            assert_writable(dest_info),
                            assert_data_length(dest_info, AccountLEN)>>)
    IN  IF pre # "Ok" THEN Fail(pre, lam, dat)
        ELSE IF source_info.key = dest_info.key THEN Fail("SelfTransfer", lam, dat)
        ELSE
        LET source == unpack_from_slice(AccountLEN, Account_unpack(dat[source_info.key]), source_info.key)
            dest == unpack_from_slice(AccountLEN, Account_unpack(dat[dest_info.key]), dest_info.key)
        IN  IF ~source.ok THEN Fail(source.err, lam, dat)
            ELSE IF ~dest.ok THEN Fail(dest.err, lam, dat)
            ELSE IF ~is_initialized(source.val) THEN Fail("UninitializedAccount", lam, dat)
            ELSE IF ~is_initialized(dest.val) THEN Fail("UninitializedAccount", lam, dat)
            ELSE IF is_frozen(source.val) THEN Fail("AccountFrozen", lam, dat)
            ELSE IF is_frozen(dest.val) THEN Fail("AccountFrozen", lam, dat)
            ELSE IF source.val.mint # dest.val.mint THEN Fail("MintMismatch", lam, dat)
            ELSE
            LET used_delegate == validate_owner_or_delegate(dat, program_id,
                                     source.val.owner, source.val.delegate,
                                     authority_info, signer_accounts)
            IN  IF ~used_delegate.ok THEN Fail(used_delegate.err, lam, dat)
                ELSE IF source.val.amount < amount THEN Fail("InsufficientFunds", lam, dat)
                ELSE
                LET allowed == delegate_allowance(source.val, used_delegate.val, amount)
                IN  IF ~allowed.ok THEN Fail(allowed.err, lam, dat)
                    ELSE
                    LET source_amount == checked_sub(allowed.val.amount, amount)
                        dest_amount == checked_add(dest.val.amount, amount)
                    IN  IF ~source_amount.ok THEN Fail(source_amount.err, lam, dat)
                        ELSE IF ~dest_amount.ok THEN Fail(dest_amount.err, lam, dat)
                        ELSE
                        LET saved1 == pack_into_slice(AccountLEN,
                                          Account_pack([allowed.val EXCEPT !.amount = source_amount.val]),
                                          dat, source_info.key)
                        IN  IF ~saved1.ok THEN Fail(saved1.err, lam, dat)
                            ELSE
                            LET saved2 == pack_into_slice(AccountLEN,
                                              Account_pack([dest.val EXCEPT !.amount = dest_amount.val]),
                                              saved1.val, dest_info.key)
                            IN  IF ~saved2.ok THEN Fail(saved2.err, lam, saved1.val)
                                ELSE Done(lam, saved2.val)

transfer_process(lam, dat, program_id, accts, amount) ==
    IF Len(accts) < 3 THEN Fail("NotEnoughAccountKeys", lam, dat)
    ELSE
    LET source_info == accts[1]
        dest_info == accts[2]
        authority_info == accts[3]
        signer_accounts == Rest(accts, 3)
        pre == FirstError(<<assert_owned_by(source_info, program_id),
                            assert_writable(source_info),
                            assert_data_length(source_info, AccountLEN),
                            assert_owned_by(dest_info, program_id),
                            assert_writable(dest_info),
                            assert_data_length(dest_info, AccountLEN)>>)
    IN  IF pre # "Ok" THEN Fail(pre, lam, dat)
        ELSE IF source_info.key = dest_info.key THEN Fail("SelfTransfer", lam, dat)
        ELSE
        LET source == unpack_from_slice(AccountLEN, Account_unpack(dat[source_info.key]), source_info.key)
            dest == unpack_from_slice(AccountLEN, Account_unpack(dat[dest_info.key]), dest_info.key)
        IN  IF ~source.ok THEN Fail(source.err, lam, dat)
            ELSE IF ~dest.ok THEN Fail(dest.err, lam, dat)
            ELSE IF ~is_initialized(source.val) THEN Fail("UninitializedAccount", lam, dat)
            ELSE IF ~is_initialized(dest.val) THEN Fail("UninitializedAccount", lam, dat)
            ELSE IF is_frozen(source.val) THEN Fail("AccountFrozen", lam, dat)
            ELSE IF is_frozen(dest.val) THEN Fail("AccountFrozen", lam, dat)
            ELSE IF source.val.mint # dest.val.mint THEN Fail("MintMismatch", lam, dat)
            ELSE IF source.val.amount < amount THEN Fail("InsufficientFunds", lam, dat)
            ELSE
            LET used_delegate == validate_owner_or_delegate(dat, program_id,
                                     source.val.owner, source.val.delegate,
                                     authority_info, signer_accounts)
            IN  IF ~used_delegate.ok THEN Fail(used_delegate.err, lam, dat)
                ELSE
                LET allowed == delegate_allowance(source.val, used_delegate.val, amount)
                IN  IF ~allowed.ok THEN Fail(allowed.err, lam, dat)
                    ELSE
                    LET source_amount == checked_sub(allowed.val.amount, amount)
                        dest_amount == checked_add(dest.val.amount, amount)
                    IN  IF ~source_amount.ok THEN Fail(source_amount.err, lam, dat)
                        ELSE IF ~dest_amount.ok THEN Fail(dest_amount.err, lam, dat)
                        ELSE
                        LET saved1 == pack_into_slice(AccountLEN,
                                          Account_pack([allowed.val EXCEPT !.amount = source_amount.val]),
                                          dat, source_info.key)
                        IN  IF ~saved1.ok THEN Fail(saved1.err, lam, dat)
                            ELSE
                            LET saved2 == pack_into_slice(AccountLEN,
                                              Account_pack([dest.val EXCEPT !.amount = dest_amount.val]),
                                              saved1.val, dest_info.key)
                            IN  IF ~saved2.ok THEN Fail(saved2.err, lam, saved1.val)
                                ELSE Done(lam, saved2.val)

\* ------------------------------------------------------------------------
\* Approve (processor/approve.rs)
\* ------------------------------------------------------------------------
\* Mutant of approve_process: the presenter is validated as owner or
\* delegate, as Transfer does.
approve_process_by_delegate(lam, dat, program_id, accts, amount) ==
    IF Len(accts) < 3 THEN Fail("NotEnoughAccountKeys", lam, dat)
    ELSE
    LET source_info == accts[1]
        delegate_info == accts[2]
        owner_info == accts[3]
        signer_accounts == Rest(accts, 3)
        pre == FirstError(<<assert_owned_by(source_info, program_id),
                            assert_writable(source_info),
                            assert_data_length(source_info, AccountLEN)>>)
    IN  IF pre # "Ok" THEN Fail(pre, lam, dat)
        ELSE
        LET source == unpack_from_slice(AccountLEN, Account_unpack(dat[source_info.key]), source_info.key)
        IN  IF ~source.ok THEN Fail(source.err, lam, dat)
            ELSE IF ~is_initialized(source.val) THEN Fail("UninitializedAccount", lam, dat)
            ELSE
            LET auth == validate_owner_or_delegate(dat, program_id, source.val.owner,
                                                   source.val.delegate,
                                                   owner_info, signer_accounts)
            IN  IF ~auth.ok THEN Fail(auth.err, lam, dat)
                ELSE
                LET saved == pack_into_slice(AccountLEN,
                                 Account_pack([source.val EXCEPT
                                     !.delegate = Some(delegate_info.key),
                                     !.delegated_amount = amount]),
                                 dat, source_info.key)
                IN  IF ~saved.ok THEN Fail(saved.err, lam, dat)
                    ELSE Done(lam, saved.val)

approve_process(lam, dat, program_id, accts, amount) ==
    IF Len(accts) < 3 THEN Fail("NotEnoughAccountKeys", lam, dat)
    ELSE
    LET source_info == accts[1]
        delegate_info == accts[2]
        owner_info == accts[3]
        signer_accounts == Rest(accts, 3)
        pre == FirstError(<<assert_owned_by(source_info, program_id),
                            assert_writable(source_info),
                            assert_data_length(source_info, AccountLEN)>>)
    IN  IF pre # "Ok" THEN Fail(pre, lam, dat)
        ELSE
        LET source == unpack_from_slice(AccountLEN, Account_unpack(dat[source_info.key]), source_info.key)
        IN  IF ~source.ok THEN Fail(source.err, lam, dat)
            ELSE IF ~is_initialized(source.val) THEN Fail("UninitializedAccount", lam, dat)
            ELSE
            LET auth == validate_authority(dat, program_id, source.val.owner,
                                           owner_info, signer_accounts)
            IN  IF auth # "Ok" THEN Fail(auth, lam, dat)
                ELSE
                LET saved == pack_into_slice(AccountLEN,
                                 Account_pack([source.val EXCEPT
                                     !.delegate = Some(delegate_info.key),
                                     !.delegated_amount = amount]),
                                 dat, source_info.key)
                IN  IF ~saved.ok THEN Fail(saved.err, lam, dat)
                    ELSE Done(lam, saved.val)

\* ------------------------------------------------------------------------
\* Revoke (processor/revoke.rs)
\* ------------------------------------------------------------------------
\* Mutant of revoke_process: the allowance is cleared, the delegate is not.
revoke_process_keep_delegate(lam, dat, program_id, accts) ==
    IF Len(accts) < 2 THEN Fail("NotEnoughAccountKeys", lam, dat)
    ELSE
    LET source_info == accts[1]
        owner_info == accts[2]
        signer_accounts == Rest(accts, 2)
        pre == FirstError(<<assert_owned_by(source_info, program_id),
                            assert_writable(source_info),
                            assert_data_length(source_info, AccountLEN)>>)
    IN  IF pre # "Ok" THEN Fail(pre, lam, dat)
        ELSE
        LET source == unpack_from_slice(AccountLEN, Account_unpack(dat[source_info.key]), source_info.key)
        IN  IF ~source.ok THEN Fail(source.err, lam, dat)
            ELSE IF ~is_initialized(source.val) THEN Fail("UninitializedAccount", lam, dat)
            ELSE
            LET auth == validate_authority(dat, program_id, source.val.owner,
                                           owner_info, signer_accounts)
            IN  IF auth # "Ok" THEN Fail(auth, lam, dat)
                ELSE
                LET saved == pack_into_slice(AccountLEN,
                                 Account_pack([source.val EXCEPT
                                     !.delegated_amount = 0]),
                                 dat, source_info.key)
                IN  IF ~saved.ok THEN Fail(saved.err, lam, dat)
                    ELSE Done(lam, saved.val)

revoke_process(lam, dat, program_id, accts) ==
    IF Len(accts) < 2 THEN Fail("NotEnoughAccountKeys", lam, dat)
    ELSE
    LET source_info == accts[1]
        owner_info == accts[2]
        signer_accounts == Rest(accts, 2)
        pre == FirstError(<<assert_owned_by(source_info, program_id),
                            assert_writable(source_info),
                            assert_data_length(source_info, AccountLEN)>>)
    IN  IF pre # "Ok" THEN Fail(pre, lam, dat)
        ELSE
        LET source == unpack_from_slice(AccountLEN, Account_unpack(dat[source_info.key]), source_info.key)
        IN  IF ~source.ok THEN Fail(source.err, lam, dat)
            ELSE IF ~is_initialized(source.val) THEN Fail("UninitializedAccount", lam, dat)
            ELSE
            LET auth == validate_authority(dat, program_id, source.val.owner,
                                           owner_info, signer_accounts)
            IN  IF auth # "Ok" THEN Fail(auth, lam, dat)
                ELSE
                LET saved == pack_into_slice(AccountLEN,
                                 Account_pack([source.val EXCEPT
                                     !.delegate = None,
                                     !.delegated_amount = 0]),
                                 dat, source_info.key)
                IN  IF ~saved.ok THEN Fail(saved.err, lam, dat)
                    ELSE Done(lam, saved.val)

\* ------------------------------------------------------------------------
\* MintTo (processor/mint_to.rs)
\* ------------------------------------------------------------------------
\* Mutant of mint_to_process: the destination is not checked to belong to
\* the mint.
mint_to_process_any_mint(lam, dat, program_id, accts, amount) ==
    IF Len(accts) < 3 THEN Fail("NotEnoughAccountKeys", lam, dat)
    ELSE
    LET mint_info == accts[1]
        dest_info == accts[2]
        authority_info == accts[3]
        signer_accounts == Rest(accts, 3)
        pre == FirstError(<<assert_owned_by(mint_info, program_id),
                            assert_writable(mint_info),
                            assert_data_length(mint_info, MintLEN),
                            assert_owned_by(dest_info, program_id),
                            assert_writable(dest_info),
                            assert_data_length(dest_info, AccountLEN)>>)
    IN  IF pre # "Ok" THEN Fail(pre, lam, dat)
        ELSE
        LET mint == unpack_from_slice(MintLEN, Mint_unpack(dat[mint_info.key]), mint_info.key)
            dest_account == unpack_from_slice(AccountLEN, Account_unpack(dat[dest_info.key]), dest_info.key)
        IN  IF ~mint.ok THEN Fail(mint.err, lam, dat)
            ELSE IF ~dest_account.ok THEN Fail(dest_account.err, lam, dat)
            ELSE IF ~mint.val.is_initialized THEN Fail("UninitializedAccount", lam, dat)
            ELSE IF ~is_initialized(dest_account.val) THEN Fail("UninitializedAccount", lam, dat)
            ELSE IF is_frozen(dest_account.val) THEN Fail("AccountFrozen", lam, dat)
            ELSE IF ~is_some(mint.val.mint_authority) THEN Fail("MintAuthorityRequired", lam, dat)
            ELSE
            LET auth == validate_authority(dat, program_id, unwrap(mint.val.mint_authority),
                                           authority_info, signer_accounts)
            IN  IF auth # "Ok" THEN Fail(auth, lam, dat)
                ELSE
                LET supply == checked_add(mint.val.supply, amount)
                    dest_amount == checked_add(dest_account.val.amount, amount)
                IN  IF ~supply.ok THEN Fail(supply.err, lam, dat)
                    ELSE IF ~dest_amount.ok THEN Fail(dest_amount.err, lam, dat)
                    ELSE
                    LET saved1 == pack_into_slice(MintLEN,
                                      Mint_pack([mint.val EXCEPT !.supply = supply.val]),
                                      dat, mint_info.key)
                    IN  IF ~saved1.ok THEN Fail(saved1.err, lam, dat)
                        ELSE
                        LET saved2 == pack_into_slice(AccountLEN,
                                          Account_pack([dest_account.val EXCEPT !.amount = dest_amount.val]),
                                          saved1.val, dest_info.key)
                        IN  IF ~saved2.ok THEN Fail(saved2.err, lam, saved1.val)
                            ELSE Done(lam, saved2.val)

\* Mutant of mint_to_process: the new supply is computed and checked but the
\* Mint is written back with the old one.
mint_to_process_supply_kept(lam, dat, program_id, accts, amount) ==
    IF Len(accts) < 3 THEN Fail("NotEnoughAccountKeys", lam, dat)
    ELSE
    LET mint_info == accts[1]
        dest_info == accts[2]
        authority_info == accts[3]
        signer_accounts == Rest(accts, 3)
        pre == FirstError(<<assert_owned_by(mint_info, program_id),
                            assert_writable(mint_info),
                            assert_data_length(mint_info, MintLEN),
                            assert_owned_by(dest_info, program_id),
                            assert_writable(dest_info),
                            assert_data_length(dest_info, AccountLEN)>>)
    IN  IF pre # "Ok" THEN Fail(pre, lam, dat)
        ELSE
        LET mint == unpack_from_slice(MintLEN, Mint_unpack(dat[mint_info.key]), mint_info.key)
            dest_account == unpack_from_slice(AccountLEN, Account_unpack(dat[dest_info.key]), dest_info.key)
        IN  IF ~mint.ok THEN Fail(mint.err, lam, dat)
            ELSE IF ~dest_account.ok THEN Fail(dest_account.err, lam, dat)
            ELSE IF ~mint.val.is_initialized THEN Fail("UninitializedAccount", lam, dat)
            ELSE IF ~is_initialized(dest_account.val) THEN Fail("UninitializedAccount", lam, dat)
            ELSE IF is_frozen(dest_account.val) THEN Fail("AccountFrozen", lam, dat)
            ELSE IF dest_account.val.mint # mint_info.key THEN Fail("MintMismatch", lam, dat)
            ELSE IF ~is_some(mint.val.mint_authority) THEN Fail("MintAuthorityRequired", lam, dat)
            ELSE
            LET auth == validate_authority(dat, program_id, unwrap(mint.val.mint_authority),
                                           authority_info, signer_accounts)
            IN  IF auth # "Ok" THEN Fail(auth, lam, dat)
                ELSE
                LET supply == checked_add(mint.val.supply, amount)
                    dest_amount == checked_add(dest_account.val.amount, amount)
                IN  IF ~supply.ok THEN Fail(supply.err, lam, dat)
                    ELSE IF ~dest_amount.ok THEN Fail(dest_amount.err, lam, dat)
                    ELSE
                    LET saved1 == pack_into_slice(MintLEN,
                                      Mint_pack(mint.val),
                                      dat, mint_info.key)
                    IN  IF ~saved1.ok THEN Fail(saved1.err, lam, dat)
                        ELSE
                        LET saved2 == pack_into_slice(AccountLEN,
                                          Account_pack([dest_account.val EXCEPT !.amount = dest_amount.val]),
                                          saved1.val, dest_info.key)
                        IN  IF ~saved2.ok THEN Fail(saved2.err, lam, saved1.val)
                            ELSE Done(lam, saved2.val)

mint_to_process(lam, dat, program_id, accts, amount) ==
    IF Len(accts) < 3 THEN Fail("NotEnoughAccountKeys", lam, dat)
    ELSE
    LET mint_info == accts[1]
        dest_info == accts[2]
        authority_info == accts[3]
        signer_accounts == Rest(accts, 3)
        pre == FirstError(<<assert_owned_by(mint_info, program_id),
                            assert_writable(mint_info),
                            assert_data_length(mint_info, MintLEN),
                            assert_owned_by(dest_info, program_id),
                            assert_writable(dest_info),
                            assert_data_length(dest_info, AccountLEN)>>)
    IN  IF pre # "Ok" THEN Fail(pre, lam, dat)
        ELSE
        LET mint == unpack_from_slice(MintLEN, Mint_unpack(dat[mint_info.key]), mint_info.key)
            dest_account == unpack_from_slice(AccountLEN, Account_unpack(dat[dest_info.key]), dest_info.key)
        IN  IF ~mint.ok THEN Fail(mint.err, lam, dat)
            ELSE IF ~dest_account.ok THEN Fail(dest_account.err, lam, dat)
            ELSE IF ~mint.val.is_initialized THEN Fail("UninitializedAccount", lam, dat)
            ELSE IF ~is_initialized(dest_account.val) THEN Fail("UninitializedAccount", lam, dat)
            ELSE IF is_frozen(dest_account.val) THEN Fail("AccountFrozen", lam, dat)
            ELSE IF dest_account.val.mint # mint_info.key THEN Fail("MintMismatch", lam, dat)
            ELSE IF ~is_some(mint.val.mint_authority) THEN Fail("MintAuthorityRequired", lam, dat)
            ELSE
            LET auth == validate_authority(dat, program_id, unwrap(mint.val.mint_authority),
                                           authority_info, signer_accounts)
            IN  IF auth # "Ok" THEN Fail(auth, lam, dat)
                ELSE
                LET supply == checked_add(mint.val.supply, amount)
                    dest_amount == checked_add(dest_account.val.amount, amount)
                IN  IF ~supply.ok THEN Fail(supply.err, lam, dat)
                    ELSE IF ~dest_amount.ok THEN Fail(dest_amount.err, lam, dat)
                    ELSE
                    LET saved1 == pack_into_slice(MintLEN,
                                      Mint_pack([mint.val EXCEPT !.supply = supply.val]),
                                      dat, mint_info.key)
                    IN  IF ~saved1.ok THEN Fail(saved1.err, lam, dat)
                        ELSE
                        LET saved2 == pack_into_slice(AccountLEN,
                                          Account_pack([dest_account.val EXCEPT !.amount = dest_amount.val]),
                                          saved1.val, dest_info.key)
                        IN  IF ~saved2.ok THEN Fail(saved2.err, lam, saved1.val)
                            ELSE Done(lam, saved2.val)

\* ------------------------------------------------------------------------
\* Burn (processor/burn.rs)
\* ------------------------------------------------------------------------
\* Mutant of burn_process: the account is not checked to belong to the
\* mint.
burn_process_any_mint(lam, dat, program_id, accts, amount) ==
    IF Len(accts) < 3 THEN Fail("NotEnoughAccountKeys", lam, dat)
    ELSE
    LET account_info == accts[1]
        mint_info == accts[2]
        authority_info == accts[3]
        signer_accounts == Rest(accts, 3)
        pre == FirstError(<<assert_owned_by(account_info, program_id),
                            assert_writable(account_info),
                            assert_data_length(account_info, AccountLEN),
                            assert_owned_by(mint_info, program_id),
                            assert_writable(mint_info),
                            assert_data_length(mint_info, MintLEN)>>)
    IN  IF pre # "Ok" THEN Fail(pre, lam, dat)
        ELSE
        LET account == unpack_from_slice(AccountLEN, Account_unpack(dat[account_info.key]), account_info.key)
            mint == unpack_from_slice(MintLEN, Mint_unpack(dat[mint_info.key]), mint_info.key)
        IN  IF ~account.ok THEN Fail(account.err, lam, dat)
            ELSE IF ~mint.ok THEN Fail(mint.err, lam, dat)
            ELSE IF ~is_initialized(account.val) THEN Fail("UninitializedAccount", lam, dat)
            ELSE IF ~mint.val.is_initialized THEN Fail("UninitializedAccount", lam, dat)
            ELSE IF is_frozen(account.val) THEN Fail("AccountFrozen", lam, dat)
            ELSE IF account.val.amount < amount THEN Fail("InsufficientFunds", lam, dat)
            ELSE
            LET used_delegate == validate_owner_or_delegate(dat, program_id,
                                     account.val.owner, account.val.delegate,
                                     authority_info, signer_accounts)
            IN  IF ~used_delegate.ok THEN Fail(used_delegate.err, lam, dat)
                ELSE
                LET allowed == delegate_allowance(account.val, used_delegate.val, amount)
                IN  IF ~allowed.ok THEN Fail(allowed.err, lam, dat)
                    ELSE
                    LET account_amount == checked_sub(allowed.val.amount, amount)
                        supply == checked_sub(mint.val.supply, amount)
                    IN  IF ~account_amount.ok THEN Fail(account_amount.err, lam, dat)
                        ELSE IF ~supply.ok THEN Fail(supply.err, lam, dat)
                        ELSE
                        LET saved1 == pack_into_slice(AccountLEN,
                                          Account_pack([allowed.val EXCEPT !.amount = account_amount.val]),
                                          dat, account_info.key)
                        IN  IF ~saved1.ok THEN Fail(saved1.err, lam, dat)
                            ELSE
                            LET saved2 == pack_into_slice(MintLEN,
                                              Mint_pack([mint.val EXCEPT !.supply = supply.val]),
                                              saved1.val, mint_info.key)
                            IN  IF ~saved2.ok THEN Fail(saved2.err, lam, saved1.val)
                                ELSE Done(lam, saved2.val)

burn_process(lam, dat, program_id, accts, amount) ==
    IF Len(accts) < 3 THEN Fail("NotEnoughAccountKeys", lam, dat)
    ELSE
    LET account_info == accts[1]
        mint_info == accts[2]
        authority_info == accts[3]
        signer_accounts == Rest(accts, 3)
        pre == FirstError(<<assert_owned_by(account_info, program_id),
                            assert_writable(account_info),
                            assert_data_length(account_info, AccountLEN),
                            assert_owned_by(mint_info, program_id),
                            assert_writable(mint_info),
                            assert_data_length(mint_info, MintLEN)>>)
    IN  IF pre # "Ok" THEN Fail(pre, lam, dat)
        ELSE
        LET account == unpack_from_slice(AccountLEN, Account_unpack(dat[account_info.key]), account_info.key)
            mint == unpack_from_slice(MintLEN, Mint_unpack(dat[mint_info.key]), mint_info.key)
        IN  IF ~account.ok THEN Fail(account.err, lam, dat)
            ELSE IF ~mint.ok THEN Fail(mint.err, lam, dat)
            ELSE IF ~is_initialized(account.val) THEN Fail("UninitializedAccount", lam, dat)
            ELSE IF ~mint.val.is_initialized THEN Fail("UninitializedAccount", lam, dat)
            ELSE IF is_frozen(account.val) THEN Fail("AccountFrozen", lam, dat)
            ELSE IF account.val.mint # mint_info.key THEN Fail("MintMismatch", lam, dat)
            ELSE IF account.val.amount < amount THEN Fail("InsufficientFunds", lam, dat)
            ELSE
            LET used_delegate == validate_owner_or_delegate(dat, program_id,
                                     account.val.owner, account.val.delegate,
                                     authority_info, signer_accounts)
            IN  IF ~used_delegate.ok THEN Fail(used_delegate.err, lam, dat)
                ELSE
                LET allowed == delegate_allowance(account.val, used_delegate.val, amount)
                IN  IF ~allowed.ok THEN Fail(allowed.err, lam, dat)
                    ELSE
                    LET account_amount == checked_sub(allowed.val.amount, amount)
                        supply == checked_sub(mint.val.supply, amount)
                    IN  IF ~account_amount.ok THEN Fail(account_amount.err, lam, dat)
                        ELSE IF ~supply.ok THEN Fail(supply.err, lam, dat)
                        ELSE
                        LET saved1 == pack_into_slice(AccountLEN,
                                          Account_pack([allowed.val EXCEPT !.amount = account_amount.val]),
                                          dat, account_info.key)
                        IN  IF ~saved1.ok THEN Fail(saved1.err, lam, dat)
                            ELSE
                            LET saved2 == pack_into_slice(MintLEN,
                                              Mint_pack([mint.val EXCEPT !.supply = supply.val]),
                                              saved1.val, mint_info.key)
                            IN  IF ~saved2.ok THEN Fail(saved2.err, lam, saved1.val)
                                ELSE Done(lam, saved2.val)

\* ------------------------------------------------------------------------
\* SetAuthority (processor/set_authority.rs)
\* ------------------------------------------------------------------------
\* Mutant of process_set_mint_authority: without a mint authority the
\* freeze authority is asked instead.
process_set_mint_authority_fallback(lam, dat, program_id, mint_info, authority_info, signer_accounts, new_authority) ==
    IF assert_data_length(mint_info, MintLEN) # "Ok"
    THEN Fail(assert_data_length(mint_info, MintLEN), lam, dat)
    ELSE
    LET mint == unpack_from_slice(MintLEN, Mint_unpack(dat[mint_info.key]), mint_info.key)
    IN  IF ~mint.ok THEN Fail(mint.err, lam, dat)
        ELSE IF ~mint.val.is_initialized THEN Fail("UninitializedAccount", lam, dat)
        ELSE IF ~is_some(mint.val.mint_authority) /\ ~is_some(mint.val.freeze_authority)
        THEN Fail("InvalidAuthority", lam, dat)
        ELSE
        LET auth == validate_authority(dat, program_id, (IF is_some(mint.val.mint_authority)
                                       THEN unwrap(mint.val.mint_authority)
                                       ELSE unwrap(mint.val.freeze_authority)),
                                       authority_info, signer_accounts)
        IN  IF auth # "Ok" THEN Fail(auth, lam, dat)
            ELSE
            LET saved == pack_into_slice(MintLEN,
                             Mint_pack([mint.val EXCEPT !.mint_authority = new_authority]),
                             dat, mint_info.key)
            IN  IF ~saved.ok THEN Fail(saved.err, lam, dat)
                ELSE Done(lam, saved.val)

process_set_mint_authority(lam, dat, program_id, mint_info, authority_info, signer_accounts, new_authority) ==
    IF assert_data_length(mint_info, MintLEN) # "Ok"
    THEN Fail(assert_data_length(mint_info, MintLEN), lam, dat)
    ELSE
    LET mint == unpack_from_slice(MintLEN, Mint_unpack(dat[mint_info.key]), mint_info.key)
    IN  IF ~mint.ok THEN Fail(mint.err, lam, dat)
        ELSE IF ~mint.val.is_initialized THEN Fail("UninitializedAccount", lam, dat)
        ELSE IF ~is_some(mint.val.mint_authority) THEN Fail("InvalidAuthority", lam, dat)
        ELSE
        LET auth == validate_authority(dat, program_id, unwrap(mint.val.mint_authority),
                                       authority_info, signer_accounts)
        IN  IF auth # "Ok" THEN Fail(auth, lam, dat)
            ELSE
            LET saved == pack_into_slice(MintLEN,
                             Mint_pack([mint.val EXCEPT !.mint_authority = new_authority]),
                             dat, mint_info.key)
            IN  IF ~saved.ok THEN Fail(saved.err, lam, dat)
                ELSE Done(lam, saved.val)

process_set_freeze_authority(lam, dat, program_id, mint_info, authority_info, signer_accounts, new_authority) ==
    IF assert_data_length(mint_info, MintLEN) # "Ok"
    THEN Fail(assert_data_length(mint_info, MintLEN), lam, dat)
    ELSE
    LET mint == unpack_from_slice(MintLEN, Mint_unpack(dat[mint_info.key]), mint_info.key)
    IN  IF ~mint.ok THEN Fail(mint.err, lam, dat)
        ELSE IF ~mint.val.is_initialized THEN Fail("UninitializedAccount", lam, dat)
        ELSE IF ~is_some(mint.val.freeze_authority) THEN Fail("FreezeAuthorityRequired", lam, dat)
        ELSE
        LET auth == validate_authority(dat, program_id, unwrap(mint.val.freeze_authority),
                                       authority_info, signer_accounts)
        IN  IF auth # "Ok" THEN Fail(auth, lam, dat)
            ELSE
            LET saved == pack_into_slice(MintLEN,
                             Mint_pack([mint.val EXCEPT !.freeze_authority = new_authority]),
                             dat, mint_info.key)
            IN  IF ~saved.ok THEN Fail(saved.err, lam, dat)
                ELSE Done(lam, saved.val)

\* Mutant of process_set_account_owner: the delegation survives the change
\* of owner.
process_set_account_owner_keep_delegate(lam, dat, program_id, account_info, authority_info, signer_accounts, new_authority) ==
    IF assert_data_length(account_info, AccountLEN) # "Ok"
    THEN Fail(assert_data_length(account_info, AccountLEN), lam, dat)
    ELSE
    LET account == unpack_from_slice(AccountLEN, Account_unpack(dat[account_info.key]), account_info.key)
    IN  IF ~account.ok THEN Fail(account.err, lam, dat)
        ELSE IF ~is_initialized(account.val) THEN Fail("UninitializedAccount", lam, dat)
        ELSE
        LET auth == validate_authority(dat, program_id, account.val.owner,
                                       authority_info, signer_accounts)
        IN  IF auth # "Ok" THEN Fail(auth, lam, dat)
            ELSE IF ~is_some(new_authority) THEN Fail("InvalidAuthority", lam, dat)
            ELSE
            LET saved == pack_into_slice(AccountLEN,
                             Account_pack([account.val EXCEPT
                                 !.owner = unwrap(new_authority)]),
                             dat, account_info.key)
            IN  IF ~saved.ok THEN Fail(saved.err, lam, dat)
                ELSE Done(lam, saved.val)

process_set_account_owner(lam, dat, program_id, account_info, authority_info, signer_accounts, new_authority) ==
    IF assert_data_length(account_info, AccountLEN) # "Ok"
    THEN Fail(assert_data_length(account_info, AccountLEN), lam, dat)
    ELSE
    LET account == unpack_from_slice(AccountLEN, Account_unpack(dat[account_info.key]), account_info.key)
    IN  IF ~account.ok THEN Fail(account.err, lam, dat)
        ELSE IF ~is_initialized(account.val) THEN Fail("UninitializedAccount", lam, dat)
        ELSE
        LET auth == validate_authority(dat, program_id, account.val.owner,
                                       authority_info, signer_accounts)
        IN  IF auth # "Ok" THEN Fail(auth, lam, dat)
            ELSE IF ~is_some(new_authority) THEN Fail("InvalidAuthority", lam, dat)
            ELSE
            LET saved == pack_into_slice(AccountLEN,
                             Account_pack([account.val EXCEPT
                                 !.owner = unwrap(new_authority),
                                 !.delegate = None,
                                 !.delegated_amount = 0]),
                             dat, account_info.key)
            IN  IF ~saved.ok THEN Fail(saved.err, lam, dat)
                ELSE Done(lam, saved.val)

process_set_close_authority(lam, dat, program_id, account_info, authority_info, signer_accounts, new_authority) ==
    IF assert_data_length(account_info, AccountLEN) # "Ok"
    THEN Fail(assert_data_length(account_info, AccountLEN), lam, dat)
    ELSE
    LET account == unpack_from_slice(AccountLEN, Account_unpack(dat[account_info.key]), account_info.key)
    IN  IF ~account.ok THEN Fail(account.err, lam, dat)
        ELSE IF ~is_initialized(account.val) THEN Fail("UninitializedAccount", lam, dat)
        ELSE
        LET current_authority == unwrap_or(account.val.close_authority, account.val.owner)
            auth == validate_authority(dat, program_id, current_authority,
                                       authority_info, signer_accounts)
        IN  IF auth # "Ok" THEN Fail(auth, lam, dat)
            ELSE
            LET saved == pack_into_slice(AccountLEN,
                             Account_pack([account.val EXCEPT !.close_authority = new_authority]),
                             dat, account_info.key)
            IN  IF ~saved.ok THEN Fail(saved.err, lam, dat)
                ELSE Done(lam, saved.val)

MintTokens == "MintTokens"
FreezeAccount == "FreezeAccount"
AccountOwner == "AccountOwner"
CloseAccount == "CloseAccount"
AuthorityType == {MintTokens, FreezeAccount, AccountOwner, CloseAccount}

set_authority_process(lam, dat, program_id, accts, authority_type, new_authority) ==
    IF Len(accts) < 2 THEN Fail("NotEnoughAccountKeys", lam, dat)
    ELSE
    LET account_info == accts[1]
        authority_info == accts[2]
        signer_accounts == Rest(accts, 2)
        pre == FirstError(<<assert_owned_by(account_info, program_id),
                            assert_writable(account_info)>>)
    IN  IF pre # "Ok" THEN Fail(pre, lam, dat)
        ELSE IF authority_type = MintTokens
        THEN process_set_mint_authority(lam, dat, program_id, account_info,
                                        authority_info, signer_accounts, new_authority)
        ELSE IF authority_type = FreezeAccount
        THEN process_set_freeze_authority(lam, dat, program_id, account_info,
                                          authority_info, signer_accounts, new_authority)
        ELSE IF authority_type = AccountOwner
        THEN process_set_account_owner(lam, dat, program_id, account_info,
                                       authority_info, signer_accounts, new_authority)
        ELSE process_set_close_authority(lam, dat, program_id, account_info,
                                         authority_info, signer_accounts, new_authority)

\* ------------------------------------------------------------------------
\* CloseAccount (processor/close_account.rs)
\* ------------------------------------------------------------------------
\* Mutant of close_account_process: the account is drained and zeroed before
\* the addition to the destination is checked.
close_account_process_drain_first(lam, dat, program_id, accts) ==
    IF Len(accts) < 3 THEN Fail("NotEnoughAccountKeys", lam, dat)
    ELSE
    LET account_info == accts[1]
        dest_info == accts[2]
        authority_info == accts[3]
        signer_accounts == Rest(accts, 3)
        pre == FirstError(<<assert_owned_by(account_info, program_id),
                            assert_writable(account_info),
                            assert_data_length(account_info, AccountLEN),
                            assert_writable(dest_info)>>)
    IN  IF pre # "Ok" THEN Fail(pre, lam, dat)
        ELSE IF account_info.key = dest_info.key THEN Fail("InvalidAuthority", lam, dat)
        ELSE
        LET account == unpack_from_slice(AccountLEN, Account_unpack(dat[account_info.key]), account_info.key)
        IN  IF ~account.ok THEN Fail(account.err, lam, dat)
            ELSE IF ~is_initialized(account.val) THEN Fail("UninitializedAccount", lam, dat)
            ELSE IF account.val.amount # 0 THEN Fail("NonZeroBalance", lam, dat)
            ELSE
            LET close_authority == unwrap_or(account.val.close_authority, account.val.owner)
                auth == validate_authority(dat, program_id, close_authority,
                                           authority_info, signer_accounts)
            IN  IF auth # "Ok" THEN Fail(auth, lam, dat)
                ELSE
                LET account_lamports == lam[account_info.key]
                IN  IF lam[dest_info.key] + account_lamports > U64Max
                    THEN Fail("Overflow", [lam EXCEPT ![account_info.key] = 0],
                              [dat EXCEPT ![account_info.key] = ZeroData(account_info.key)])
                    ELSE
                    LET lam1 == [lam EXCEPT ![dest_info.key] = @ + account_lamports]
                        lam2 == [lam1 EXCEPT ![account_info.key] = 0]
                    IN  Done(lam2, [dat EXCEPT ![account_info.key] = ZeroData(account_info.key)])

\* Mutant of close_account_process: the balance is not looked at.
close_account_process_any_balance(lam, dat, program_id, accts) ==
    IF Len(accts) < 3 THEN Fail("NotEnoughAccountKeys", lam, dat)
    ELSE
    LET account_info == accts[1]
        dest_info == accts[2]
        authority_info == accts[3]
        signer_accounts == Rest(accts, 3)
        pre == FirstError(<<assert_owned_by(account_info, program_id),
                            assert_writable(account_info),
                            assert_data_length(account_info, AccountLEN),
                            assert_writable(dest_info)>>)
    IN  IF pre # "Ok" THEN Fail(pre, lam, dat)
        ELSE IF account_info.key = dest_info.key THEN Fail("InvalidAuthority", lam, dat)
        ELSE
        LET account == unpack_from_slice(AccountLEN, Account_unpack(dat[account_info.key]), account_info.key)
        IN  IF ~account.ok THEN Fail(account.err, lam, dat)
            ELSE IF ~is_initialized(account.val) THEN Fail("UninitializedAccount", lam, dat)
            ELSE
            LET close_authority == unwrap_or(account.val.close_authority, account.val.owner)
                auth == validate_authority(dat, program_id, close_authority,
                                           authority_info, signer_accounts)
            IN  IF auth # "Ok" THEN Fail(auth, lam, dat)
                ELSE
                LET account_lamports == lam[account_info.key]
                IN  IF lam[dest_info.key] + account_lamports > U64Max
                    THEN Fail("Overflow", lam, dat)
                    ELSE
                    LET lam1 == [lam EXCEPT ![dest_info.key] = @ + account_lamports]
                        lam2 == [lam1 EXCEPT ![account_info.key] = 0]
                    IN  Done(lam2, [dat EXCEPT ![account_info.key] = ZeroData(account_info.key)])

\* Mutant of close_account_process: the lamports of the closed account are
\* credited to the destination and left in the account as well.
close_account_process_keep_lamports(lam, dat, program_id, accts) ==
    IF Len(accts) < 3 THEN Fail("NotEnoughAccountKeys", lam, dat)
    ELSE
    LET account_info == accts[1]
        dest_info == accts[2]
        authority_info == accts[3]
        signer_accounts == Rest(accts, 3)
        pre == FirstError(<<assert_owned_by(account_info, program_id),
                            assert_writable(account_info),
                            assert_data_length(account_info, AccountLEN),
                            assert_writable(dest_info)>>)
    IN  IF pre # "Ok" THEN Fail(pre, lam, dat)
        ELSE IF account_info.key = dest_info.key THEN Fail("InvalidAuthority", lam, dat)
        ELSE
        LET account == unpack_from_slice(AccountLEN, Account_unpack(dat[account_info.key]), account_info.key)
        IN  IF ~account.ok THEN Fail(account.err, lam, dat)
            ELSE IF ~is_initialized(account.val) THEN Fail("UninitializedAccount", lam, dat)
            ELSE IF account.val.amount # 0 THEN Fail("NonZeroBalance", lam, dat)
            ELSE
            LET close_authority == unwrap_or(account.val.close_authority, account.val.owner)
                auth == validate_authority(dat, program_id, close_authority,
                                           authority_info, signer_accounts)
            IN  IF auth # "Ok" THEN Fail(auth, lam, dat)
                ELSE
                LET account_lamports == lam[account_info.key]
                IN  IF lam[dest_info.key] + account_lamports > U64Max
                    THEN Fail("Overflow", lam, dat)
                    ELSE
                    LET lam1 == [lam EXCEPT ![dest_info.key] = @ + account_lamports]
                        lam2 == lam1
                    IN  Done(lam2, [dat EXCEPT ![account_info.key] = ZeroData(account_info.key)])

\* Mutant of close_account_process: the authority is validated against the
\* owner also when a close authority is set.
close_account_process_owner_closes(lam, dat, program_id, accts) ==
    IF Len(accts) < 3 THEN Fail("NotEnoughAccountKeys", lam, dat)
    ELSE
    LET account_info == accts[1]
        dest_info == accts[2]
        authority_info == accts[3]
        signer_accounts == Rest(accts, 3)
        pre == FirstError(<<assert_owned_by(account_info, program_id),
                            assert_writable(account_info),
                            assert_data_length(account_info, AccountLEN),
                            assert_writable(dest_info)>>)
    IN  IF pre # "Ok" THEN Fail(pre, lam, dat)
        ELSE IF account_info.key = dest_info.key THEN Fail("InvalidAuthority", lam, dat)
        ELSE
        LET account == unpack_from_slice(AccountLEN, Account_unpack(dat[account_info.key]), account_info.key)
        IN  IF ~account.ok THEN Fail(account.err, lam, dat)
            ELSE IF ~is_initialized(account.val) THEN Fail("UninitializedAccount", lam, dat)
            ELSE IF account.val.amount # 0 THEN Fail("NonZeroBalance", lam, dat)
            ELSE
            LET close_authority == account.val.owner
                auth == validate_authority(dat, program_id, close_authority,
                                           authority_info, signer_accounts)
            IN  IF auth # "Ok" THEN Fail(auth, lam, dat)
                ELSE
                LET account_lamports == lam[account_info.key]
                IN  IF lam[dest_info.key] + account_lamports > U64Max
                    THEN Fail("Overflow", lam, dat)
                    ELSE
                    LET lam1 == [lam EXCEPT ![dest_info.key] = @ + account_lamports]
                        lam2 == [lam1 EXCEPT ![account_info.key] = 0]
                    IN  Done(lam2, [dat EXCEPT ![account_info.key] = ZeroData(account_info.key)])

close_account_process(lam, dat, program_id, accts) ==
    IF Len(accts) < 3 THEN Fail("NotEnoughAccountKeys", lam, dat)
    ELSE
    LET account_info == accts[1]
        dest_info == accts[2]
        authority_info == accts[3]
        signer_accounts == Rest(accts, 3)
        pre == FirstError(<<assert_owned_by(account_info, program_id),
                            assert_writable(account_info),
                            assert_data_length(account_info, AccountLEN),
                            assert_writable(dest_info)>>)
    IN  IF pre # "Ok" THEN Fail(pre, lam, dat)
        ELSE IF account_info.key = dest_info.key THEN Fail("InvalidAuthority", lam, dat)
        ELSE
        LET account == unpack_from_slice(AccountLEN, Account_unpack(dat[account_info.key]), account_info.key)
        IN  IF ~account.ok THEN Fail(account.err, lam, dat)
            ELSE IF ~is_initialized(account.val) THEN Fail("UninitializedAccount", lam, dat)
            ELSE IF account.val.amount # 0 THEN Fail("NonZeroBalance", lam, dat)
            ELSE
            LET close_authority == unwrap_or(account.val.close_authority, account.val.owner)
                auth == validate_authority(dat, program_id, close_authority,
                                           authority_info, signer_accounts)
            IN  IF auth # "Ok" THEN Fail(auth, lam, dat)
                ELSE
                LET account_lamports == lam[account_info.key]
                IN  IF lam[dest_info.key] + account_lamports > U64Max
                    THEN Fail("Overflow", lam, dat)
                    ELSE
                    LET lam1 == [lam EXCEPT ![dest_info.key] = @ + account_lamports]
                        lam2 == [lam1 EXCEPT ![account_info.key] = 0]
                    IN  Done(lam2, [dat EXCEPT ![account_info.key] = ZeroData(account_info.key)])

\* ------------------------------------------------------------------------
\* FreezeAccount (processor/freeze_account.rs)
\* ------------------------------------------------------------------------
\* Mutant of freeze_account_process: without a freeze authority the mint
\* authority is asked instead.
freeze_account_process_fallback(lam, dat, program_id, accts) ==
    IF Len(accts) < 3 THEN Fail("NotEnoughAccountKeys", lam, dat)
    ELSE
    LET account_info == accts[1]
        mint_info == accts[2]
        authority_info == accts[3]
        signer_accounts == Rest(accts, 3)
        pre == FirstError(<<assert_owned_by(account_info, program_id),
                            assert_writable(account_info),
                            assert_data_length(account_info, AccountLEN),
                            assert_owned_by(mint_info, program_id),
                            assert_data_length(mint_info, MintLEN)>>)
    IN  IF pre # "Ok" THEN Fail(pre, lam, dat)
        ELSE
        LET account == unpack_from_slice(AccountLEN, Account_unpack(dat[account_info.key]), account_info.key)
            mint == unpack_from_slice(MintLEN, Mint_unpack(dat[mint_info.key]), mint_info.key)
        IN  IF ~account.ok THEN Fail(account.err, lam, dat)
            ELSE IF ~mint.ok THEN Fail(mint.err, lam, dat)
            ELSE IF ~is_initialized(account.val) THEN Fail("UninitializedAccount", lam, dat)
            ELSE IF ~mint.val.is_initialized THEN Fail("UninitializedAccount", lam, dat)
            ELSE IF account.val.mint # mint_info.key THEN Fail("MintMismatch", lam, dat)
            ELSE IF ~is_some(mint.val.freeze_authority) /\ ~is_some(mint.val.mint_authority)
            THEN Fail("FreezeAuthorityRequired", lam, dat)
            ELSE
            LET auth == validate_authority(dat, program_id, (IF is_some(mint.val.freeze_authority)
                                           THEN unwrap(mint.val.freeze_authority)
                                           ELSE unwrap(mint.val.mint_authority)),
                                           authority_info, signer_accounts)
            IN  IF auth # "Ok" THEN Fail(auth, lam, dat)
                ELSE
                LET saved == pack_into_slice(AccountLEN,
                                 Account_pack([account.val EXCEPT !.state = Frozen]),
                                 dat, account_info.key)
                IN  IF ~saved.ok THEN Fail(saved.err, lam, dat)
                    ELSE Done(lam, saved.val)

freeze_account_process(lam, dat, program_id, accts) ==
    IF Len(accts) < 3 THEN Fail("NotEnoughAccountKeys", lam, dat)
    ELSE
    LET account_info == accts[1]
        mint_info == accts[2]
        authority_info == accts[3]
        signer_accounts == Rest(accts, 3)
        pre == FirstError(<<assert_owned_by(account_info, program_id),
                            assert_writable(account_info),
                            assert_data_length(account_info, AccountLEN),
                            assert_owned_by(mint_info, program_id),
                            assert_data_length(mint_info, MintLEN)>>)
    IN  IF pre # "Ok" THEN Fail(pre, lam, dat)
        ELSE
        LET account == unpack_from_slice(AccountLEN, Account_unpack(dat[account_info.key]), account_info.key)
            mint == unpack_from_slice(MintLEN, Mint_unpack(dat[mint_info.key]), mint_info.key)
        IN  IF ~account.ok THEN Fail(account.err, lam, dat)
            ELSE IF ~mint.ok THEN Fail(mint.err, lam, dat)
            ELSE IF ~is_initialized(account.val) THEN Fail("UninitializedAccount", lam, dat)
            ELSE IF ~mint.val.is_initialized THEN Fail("UninitializedAccount", lam, dat)
            ELSE IF account.val.mint # mint_info.key THEN Fail("MintMismatch", lam, dat)
            ELSE IF ~is_some(mint.val.freeze_authority) THEN Fail("FreezeAuthorityRequired", lam, dat)
            ELSE
            LET auth == validate_authority(dat, program_id, unwrap(mint.val.freeze_authority),
                                           authority_info, signer_accounts)
            IN  IF auth # "Ok" THEN Fail(auth, lam, dat)
                ELSE
                LET saved == pack_into_slice(AccountLEN,
                                 Account_pack([account.val EXCEPT !.state = Frozen]),
                                 dat, account_info.key)
                IN  IF ~saved.ok THEN Fail(saved.err, lam, dat)
                    ELSE Done(lam, saved.val)

\* ------------------------------------------------------------------------
\* ThawAccount (processor/thaw_account.rs).  The file is not part of the
\* sources at hand; the handler follows the description of instruction 11:
\* the checks of FreezeAccount, then state = Initialized.
\* ------------------------------------------------------------------------
thaw_account_process(lam, dat, program_id, accts) ==
    IF Len(accts) < 3 THEN Fail("NotEnoughAccountKeys", lam, dat)
    ELSE
    LET account_info == accts[1]
        mint_info == accts[2]
        authority_info == accts[3]
        signer_accounts == Rest(accts, 3)
        pre == FirstError(<<assert_owned_by(account_info, program_id),
                            assert_writable(account_info),
                            assert_data_length(account_info, AccountLEN),
                            assert_owned_by(mint_info, program_id),
                            assert_data_length(mint_info, MintLEN)>>)
    IN  IF pre # "Ok" THEN Fail(pre, lam, dat)
        ELSE
        LET account == unpack_from_slice(AccountLEN, Account_unpack(dat[account_info.key]), account_info.key)
            mint == unpack_from_slice(MintLEN, Mint_unpack(dat[mint_info.key]), mint_info.key)
        IN  IF ~account.ok THEN Fail(account.err, lam, dat)
            ELSE IF ~mint.ok THEN Fail(mint.err, lam, dat)
            ELSE IF ~is_initialized(account.val) THEN Fail("UninitializedAccount", lam, dat)
            ELSE IF ~mint.val.is_initialized THEN Fail("UninitializedAccount", lam, dat)
            ELSE IF account.val.mint # mint_info.key THEN Fail("MintMismatch", lam, dat)
            ELSE IF ~is_some(mint.val.freeze_authority) THEN Fail("FreezeAuthorityRequired", lam, dat)
            ELSE
            LET auth == validate_authority(dat, program_id, unwrap(mint.val.freeze_authority),
                                           authority_info, signer_accounts)
            IN  IF auth # "Ok" THEN Fail(auth, lam, dat)
                ELSE
                LET saved == pack_into_slice(AccountLEN,
                                 Account_pack([account.val EXCEPT !.state = Initialized]),
                                 dat, account_info.key)
                IN  IF ~saved.ok THEN Fail(saved.err, lam, dat)
                    ELSE Done(lam, saved.val)

\* ------------------------------------------------------------------------
\* Processor::process (processor/mod.rs): route the decoded instruction.
\* ------------------------------------------------------------------------

\* ------------------------------------------------------------------------
\* Instruction codec (instruction.rs).  Instruction data is a sequence of
\* bytes; in a decoded instruction a key is its array of PubkeyBytes bytes
\* (Pubkey::new_from_array, as_ref) and an amount is a number.
\* ------------------------------------------------------------------------
NotParsed == Er("None")

\* u64::from_le_bytes
RECURSIVE from_le_bytes(_)
from_le_bytes(b) ==
    IF b = <<>> THEN 0 ELSE Head(b) + 256 * from_le_bytes(Tail(b))

\* u64::to_le_bytes, n bytes wide
RECURSIVE to_le_bytes(_, _)
to_le_bytes(v, n) ==
    IF n = 0 THEN <<>> ELSE <<v % 256>> \o to_le_bytes(v \div 256, n - 1)

AuthorityType_from_u8(value) ==
    IF value = 0 THEN Ok(MintTokens)
    ELSE IF value = 1 THEN Ok(FreezeAccount)
    ELSE IF value = 2 THEN Ok(AccountOwner)
    ELSE IF value = 3 THEN Ok(CloseAccount)
    ELSE Er("InvalidInstruction")

\* authority_type as u8
AuthorityType_as_u8(authority_type) ==
    IF authority_type = MintTokens THEN 0
    ELSE IF authority_type = FreezeAccount THEN 1
    ELSE IF authority_type = AccountOwner THEN 2
    ELSE 3

\* The arm of unpack shared by Transfer, Approve, MintTo and Burn.
unpack_amount(tag, rest) ==
    IF Len(rest) < U64Bytes THEN Er("InvalidInstruction")
    ELSE Ok([tag |-> tag, amount |-> from_le_bytes(SubSeq(rest, 1, U64Bytes))])

TokenInstruction_unpack(input) ==
    IF input = <<>> THEN Er("InvalidInstruction")
    ELSE
    LET discriminant == Head(input)
        rest == Tail(input)
    IN  IF discriminant = 0
        THEN IF Len(rest) < 1 + PubkeyBytes + 1 THEN Er("InvalidInstruction")
             ELSE
             LET decimals == rest[1]
                 mint_authority == SubSeq(rest, 2, 1 + PubkeyBytes)
             IN  IF rest[2 + PubkeyBytes] = 1
                 THEN IF Len(rest) < 2 + 2 * PubkeyBytes THEN Er("InvalidInstruction")
                      ELSE Ok([tag |-> "InitializeMint",
                               decimals |-> decimals,
                               mint_authority |-> mint_authority,
                               freeze_authority |->
                                   Some(SubSeq(rest, 3 + PubkeyBytes, 2 + 2 * PubkeyBytes))])
                 ELSE IF rest[2 + PubkeyBytes] = 0
                 THEN Ok([tag |-> "InitializeMint",
                          decimals |-> decimals,
                          mint_authority |-> mint_authority,
                          freeze_authority |-> None])
                 ELSE Er("InvalidInstruction")
        ELSE IF discriminant = 1 THEN Ok([tag |-> "InitializeAccount"])
        ELSE IF discriminant = 2
        THEN IF rest = <<>> THEN Er("InvalidInstruction")
             ELSE Ok([tag |-> "InitializeMultisig", m |-> rest[1]])
        ELSE IF discriminant = 3 THEN unpack_amount("Transfer", rest)
        ELSE IF discriminant = 4 THEN unpack_amount("Approve", rest)
        ELSE IF discriminant = 5 THEN Ok([tag |-> "Revoke"])
        ELSE IF discriminant = 6
        THEN IF Len(rest) < 2 THEN Er("InvalidInstruction")
             ELSE
             LET authority_type == AuthorityType_from_u8(rest[1])
             IN  IF ~authority_type.ok THEN authority_type
                 ELSE IF rest[2] = 1
                 THEN IF Len(rest) < 2 + PubkeyBytes THEN Er("InvalidInstruction")
                      ELSE Ok([tag |-> "SetAuthority",
                               authority_type |-> authority_type.val,
                               new_authority |-> Some(SubSeq(rest, 3, 2 + PubkeyBytes))])
                 ELSE IF rest[2] = 0
                 THEN Ok([tag |-> "SetAuthority",
                          authority_type |-> authority_type.val,
                          new_authority |-> None])
                 ELSE Er("InvalidInstruction")
        ELSE IF discriminant = 7 THEN unpack_amount("MintTo", rest)
        ELSE IF discriminant = 8 THEN unpack_amount("Burn", rest)
        ELSE IF discriminant = 9 THEN Ok([tag |-> "CloseAccount"])
        ELSE IF discriminant = 10 THEN Ok([tag |-> "FreezeAccount"])
        ELSE IF discriminant = 11 THEN Ok([tag |-> "ThawAccount"])
        ELSE Er("InvalidInstruction")

\* Mutant of pack_option_pubkey: the key is written without its tag byte.
pack_option_pubkey_no_tag(o) ==
    IF is_some(o) THEN unwrap(o) ELSE <<0>>

\* The optional key as pack writes it: the tag byte, then the key if any.
pack_option_pubkey(o) ==
    IF is_some(o) THEN <<1>> \o unwrap(o) ELSE <<0>>

TokenInstruction_pack(instruction) ==
    IF instruction.tag = "InitializeMint"
    THEN <<0, instruction.decimals>> \o instruction.mint_authority
             \o pack_option_pubkey(instruction.freeze_authority)
    ELSE IF instruction.tag = "InitializeAccount" THEN <<1>>
    ELSE IF instruction.tag = "InitializeMultisig" THEN <<2, instruction.m>>
    ELSE IF instruction.tag = "Transfer"
    THEN <<3>> \o to_le_bytes(instruction.amount, U64Bytes)
    ELSE IF instruction.tag = "Approve"
    THEN <<4>> \o to_le_bytes(instruction.amount, U64Bytes)
    ELSE IF instruction.tag = "Revoke" THEN <<5>>
    ELSE IF instruction.tag = "SetAuthority"
    THEN <<6, AuthorityType_as_u8(instruction.authority_type)>>
             \o pack_option_pubkey(instruction.new_authority)
    ELSE IF instruction.tag = "MintTo"
    THEN <<7>> \o to_le_bytes(instruction.amount, U64Bytes)
    ELSE IF instruction.tag = "Burn"
    THEN <<8>> \o to_le_bytes(instruction.amount, U64Bytes)
    ELSE IF instruction.tag = "CloseAccount" THEN <<9>>
    ELSE IF instruction.tag = "FreezeAccount" THEN <<10>>
    ELSE <<11>>


\* ------------------------------------------------------------------------
\* Record codec over bytes (state/mint.rs, account.rs, multisig.rs): pack
\* and unpack with the buffer as its sequence of bytes, a key as its array
\* of 32 bytes.
\* ------------------------------------------------------------------------
NoRecord == [kind |-> "None"]

Zeros(n) == [i \in 1..n |-> 0]

unpack_coption_pubkey_bytes(src) ==
    LET tag_value == from_le_bytes(SubSeq(src, 1, 4))
    IN  IF tag_value = 0 THEN Ok(None)
        ELSE IF tag_value = 1 THEN Ok(Some(SubSeq(src, 5, 36)))
        ELSE Er("InvalidInstruction")

\* Mutant of pack_coption_pubkey_bytes: none is written with the tag of
\* some.
pack_coption_pubkey_bytes_tag_one(src) ==
    IF is_some(src) THEN to_le_bytes(1, 4) \o unwrap(src)
    ELSE to_le_bytes(1, 4) \o Zeros(32)

pack_coption_pubkey_bytes(src) ==
    IF is_some(src) THEN to_le_bytes(1, 4) \o unwrap(src)
    ELSE to_le_bytes(0, 4) \o Zeros(32)

unpack_coption_u64_bytes(src) ==
    LET tag_value == from_le_bytes(SubSeq(src, 1, 4))
    IN  IF tag_value = 0 THEN Ok(None)
        ELSE IF tag_value = 1 THEN Ok(Some(from_le_bytes(SubSeq(src, 5, 12))))
        ELSE Er("InvalidInstruction")

pack_coption_u64_bytes(src) ==
    IF is_some(src) THEN to_le_bytes(1, 4) \o to_le_bytes(unwrap(src), 8)
    ELSE to_le_bytes(0, 4) \o Zeros(8)

\* Mint::unpack behind the length check of unpack_from_slice
Mint_unpack_bytes(input) ==
    IF Len(input) # MintLEN THEN Er("InvalidAccountData")
    ELSE
    LET mint_authority == unpack_coption_pubkey_bytes(SubSeq(input, 1, 36))
        freeze_authority == unpack_coption_pubkey_bytes(SubSeq(input, 47, 82))
    IN  IF ~mint_authority.ok THEN mint_authority
        ELSE IF ~freeze_authority.ok THEN freeze_authority
        ELSE Ok([mint_authority |-> mint_authority.val,
                 supply |-> from_le_bytes(SubSeq(input, 37, 44)),
                 decimals |-> input[45],
                 is_initialized |-> (input[46] # 0),
                 freeze_authority |-> freeze_authority.val])

Mint_pack_bytes(mint) ==
    pack_coption_pubkey_bytes(mint.mint_authority)
        \o to_le_bytes(mint.supply, 8)
        \o <<mint.decimals>>
        \o <<IF mint.is_initialized THEN 1 ELSE 0>>
        \o pack_coption_pubkey_bytes(mint.freeze_authority)

\* Account::unpack behind the length check of unpack_from_slice
Account_unpack_bytes(input) ==
    IF Len(input) # AccountLEN THEN Er("InvalidAccountData")
    ELSE
    LET delegate == unpack_coption_pubkey_bytes(SubSeq(input, 73, 108))
        state == AccountState_from_u8(input[109])
        is_native == unpack_coption_u64_bytes(SubSeq(input, 110, 121))
        close_authority == unpack_coption_pubkey_bytes(SubSeq(input, 130, 165))
    IN  IF ~delegate.ok THEN delegate
        ELSE IF ~state.ok THEN state
        ELSE IF ~is_native.ok THEN is_native
        ELSE IF ~close_authority.ok THEN close_authority
        ELSE Ok([mint |-> SubSeq(input, 1, 32),
                 owner |-> SubSeq(input, 33, 64),
                 amount |-> from_le_bytes(SubSeq(input, 65, 72)),
                 delegate |-> delegate.val,
                 state |-> state.val,
                 is_native |-> is_native.val,
                 delegated_amount |-> from_le_bytes(SubSeq(input, 122, 129)),
                 close_authority |-> close_authority.val])

Account_pack_bytes(account) ==
    account.mint
        \o account.owner
        \o to_le_bytes(account.amount, 8)
        \o pack_coption_pubkey_bytes(account.delegate)
        \o <<AccountState_to_u8(account.state)>>
        \o pack_coption_u64_bytes(account.is_native)
        \o to_le_bytes(account.delegated_amount, 8)
        \o pack_coption_pubkey_bytes(account.close_authority)

\* Multisig::unpack behind the length check of unpack_from_slice
Multisig_unpack_bytes(input) ==
    IF Len(input) # MultisigLEN THEN Er("InvalidAccountData")
    ELSE
    LET m == input[1]
        n == input[2]
        initialized == input[3] # 0
    IN  IF n > MAX_SIGNERS THEN Er("InvalidMultisigConfig")
        ELSE IF m > n THEN Er("InvalidMultisigConfig")
        ELSE IF initialized /\ m = 0 THEN Er("InvalidMultisigConfig")
        ELSE Ok([m |-> m,
                 n |-> n,
                 is_initialized |-> initialized,
                 signers |-> [i \in 1..MAX_SIGNERS |->
                                 SubSeq(input, 3 + (i - 1) * 32 + 1, 3 + i * 32)]])

Multisig_pack_bytes(multisig) ==
    <<multisig.m, multisig.n, IF multisig.is_initialized THEN 1 ELSE 0>>
        \o [j \in 1..(MAX_SIGNERS * 32) |->
               multisig.signers[((j - 1) \div 32) + 1][((j - 1) % 32) + 1]]

\* unpack and pack of the record's kind
Record_unpack(kind, input) ==
    IF kind = "Mint" THEN Mint_unpack_bytes(input)
    ELSE IF kind = "Account" THEN Account_unpack_bytes(input)
    ELSE Multisig_unpack_bytes(input)

Record_pack(kind, value) ==
    IF kind = "Mint" THEN Mint_pack_bytes(value)
    ELSE IF kind = "Account" THEN Account_pack_bytes(value)
    ELSE Multisig_pack_bytes(value)

Record_LEN(kind) ==
    IF kind = "Mint" THEN MintLEN
    ELSE IF kind = "Account" THEN AccountLEN
    ELSE MultisigLEN

Process(lam, dat, program_id, accts, instruction) ==
    CASE instruction.tag = "InitializeMint" ->
            initialize_mint_process(lam, dat, program_id, accts, instruction.decimals,
                                    instruction.mint_authority, instruction.freeze_authority)
      [] instruction.tag = "InitializeAccount" ->
            initialize_account_process(lam, dat, program_id, accts)
      [] instruction.tag = "InitializeMultisig" ->
            initialize_multisig_process(lam, dat, program_id, accts, instruction.m)
      [] instruction.tag = "Transfer" ->
            transfer_process(lam, dat, program_id, accts, instruction.amount)
      [] instruction.tag = "Approve" ->
            approve_process(lam, dat, program_id, accts, instruction.amount)
      [] instruction.tag = "Revoke" ->
            revoke_process(lam, dat, program_id, accts)
      [] instruction.tag = "SetAuthority" ->
            set_authority_process(lam, dat, program_id, accts, instruction.authority_type,
                                  instruction.new_authority)
      [] instruction.tag = "MintTo" ->
            mint_to_process(lam, dat, program_id, accts, instruction.amount)
      [] instruction.tag = "Burn" ->
            burn_process(lam, dat, program_id, accts, instruction.amount)
      [] instruction.tag = "CloseAccount" ->
            close_account_process(lam, dat, program_id, accts)
      [] instruction.tag = "FreezeAccount" ->
            freeze_account_process(lam, dat, program_id, accts)
      [] instruction.tag = "ThawAccount" ->
            thaw_account_process(lam, dat, program_id, accts)

\* ------------------------------------------------------------------------
\* The host: records as created, and the calls it makes
\* ------------------------------------------------------------------------
AI(k, s, w) == [key |-> k, is_signer |-> s, is_writable |-> w]
Signed(k) == AI(k, TRUE, FALSE)
Unsigned(k) == AI(k, FALSE, FALSE)
Writable(k) == AI(k, FALSE, TRUE)

NoIx == [tag |-> "None"]

NoAllowance == [approved |-> 0, moved |-> 0]

\* Records are created by the host at their size, zeroed, and funded: token
\* records with the rent-exempt minimum, wallet A up to one lamport below
\* the maximum.
Init ==
    /\ lamports = [k \in RecordKeys |->
                      IF k = "A" THEN U64Max - 1
                      ELSE IF k \in {"B", "D"} THEN 0
                      ELSE 1]
    /\ data = [k \in RecordKeys |-> ZeroData(k)]
    /\ pc = "idle"
    /\ ix = NoIx
    /\ accounts = <<>>
    /\ result = "None"
    /\ revoked = [a \in AccountKeys |-> None]
    /\ unthawed = [a \in AccountKeys |-> FALSE]
    /\ allowance = [a \in AccountKeys |-> NoAllowance]
    /\ sealed = [a \in AccountKeys |-> None]
    /\ wire = <<>>
    /\ parsed = NotParsed
    /\ record = NoRecord

\* What the call adds to the record of revocations: res is its result, dat
\* the data it was given.
RevokedAfter(dat, instruction, accts, res) ==
    IF res = "Ok" /\ instruction.tag = "Revoke"
    THEN [revoked EXCEPT ![accts[1].key] = Account_unpack(dat[accts[1].key]).val.delegate]
    ELSE IF res = "Ok" /\ instruction.tag = "Approve"
    THEN [revoked EXCEPT ![accts[1].key] = None]
    ELSE revoked

\* What the call adds to the record of freezes.
UnthawedAfter(instruction, accts, res) ==
    IF res = "Ok" /\ instruction.tag = "FreezeAccount"
    THEN [unthawed EXCEPT ![accts[1].key] = TRUE]
    ELSE IF res = "Ok" /\ instruction.tag = "ThawAccount"
    THEN [unthawed EXCEPT ![accts[1].key] = FALSE]
    ELSE unthawed

\* One call of the entry point: the handler runs to completion and its
\* result and writes are what the host sees.
Call(instruction, accts) ==
    /\ pc = "idle"
    /\ LET r == Process(lamports, data, ProgramId, accts, instruction)
       IN  /\ lamports' = r.lam
           /\ data' = r.dat
           /\ result' = r.res
    /\ ix' = instruction
    /\ accounts' = accts
    /\ pc' = "returned"
    /\ UNCHANGED <<revoked, unthawed, wire, parsed, record, allowance, sealed>>

\* The same call with the records of revocations and of freezes kept. A
\* specification whose properties read revoked takes its Approve and Revoke
\* steps observed, one whose properties read unthawed its FreezeAccount and
\* ThawAccount steps.
ObservedCall(instruction, accts) ==
    /\ pc = "idle"
    /\ LET r == Process(lamports, data, ProgramId, accts, instruction)
       IN  /\ lamports' = r.lam
           /\ data' = r.dat
           /\ result' = r.res
           /\ revoked' = RevokedAfter(data, instruction, accts, r.res)
           /\ unthawed' = UnthawedAfter(instruction, accts, r.res)
    /\ ix' = instruction
    /\ accounts' = accts
    /\ pc' = "returned"
    /\ UNCHANGED <<wire, parsed, record, allowance, sealed>>

\* The host takes the result and is ready for the next instruction.

\* What the call adds to the record of allowances: an Approve opens one, a
\* Revoke or a change of owner ends it, a Transfer or Burn for which
\* validate_owner_or_delegate reported the delegate adds its amount.
AllowanceAfter(dat, instruction, accts, res) ==
    IF res # "Ok" THEN allowance
    ELSE IF instruction.tag = "Approve"
    THEN [allowance EXCEPT ![accts[1].key] = [approved |-> instruction.amount, moved |-> 0]]
    ELSE IF instruction.tag = "Revoke"
            \/ (instruction.tag = "SetAuthority" /\ instruction.authority_type = AccountOwner)
    THEN [allowance EXCEPT ![accts[1].key] = NoAllowance]
    ELSE IF instruction.tag \in {"Transfer", "Burn"}
    THEN LET source == Account_unpack(dat[accts[1].key]).val
             used_delegate == validate_owner_or_delegate(dat, ProgramId, source.owner,
                                  source.delegate, accts[3], Rest(accts, 3))
         IN  IF used_delegate.val
             THEN [allowance EXCEPT ![accts[1].key].moved = @ + instruction.amount]
             ELSE allowance
    ELSE allowance

\* Processor::process with the allowances recorded.
AllowanceCall(instruction, accts) ==
    /\ pc = "idle"
    /\ LET r == Process(lamports, data, ProgramId, accts, instruction)
       IN  /\ lamports' = r.lam
           /\ data' = r.dat
           /\ result' = r.res
           /\ allowance' = AllowanceAfter(data, instruction, accts, r.res)
    /\ ix' = instruction
    /\ accounts' = accts
    /\ pc' = "returned"
    /\ UNCHANGED <<revoked, unthawed, wire, parsed, record, sealed>>

\* What the call adds to the record of sealed Accounts: a successful
\* SetAuthority(FreezeAccount, none) on a Mint seals every Frozen Account of
\* that Mint with the amount it holds.
SealedAfter(dat, instruction, accts, res) ==
    IF /\ res = "Ok"
       /\ instruction.tag = "SetAuthority"
       /\ instruction.authority_type = FreezeAccount
       /\ instruction.new_authority = None
       /\ accts[1].key \in MintKeys
    THEN [a \in AccountKeys |->
             IF /\ ~is_some(sealed[a])
                /\ Account_unpack(dat[a]).val.state = Frozen
                /\ Account_unpack(dat[a]).val.mint = accts[1].key
             THEN Some(Account_unpack(dat[a]).val.amount)
             ELSE sealed[a]]
    ELSE sealed

\* Processor::process with the sealed Accounts recorded.
SealCall(instruction, accts) ==
    /\ pc = "idle"
    /\ LET r == Process(lamports, data, ProgramId, accts, instruction)
       IN  /\ lamports' = r.lam
           /\ data' = r.dat
           /\ result' = r.res
           /\ sealed' = SealedAfter(data, instruction, accts, r.res)
    /\ ix' = instruction
    /\ accounts' = accts
    /\ pc' = "returned"
    /\ UNCHANGED <<revoked, unthawed, wire, parsed, record, allowance>>

Return ==
    /\ pc = "returned"
    /\ pc' = "idle"
    /\ ix' = NoIx
    /\ accounts' = <<>>
    /\ result' = "None"
    /\ UNCHANGED <<lamports, data, revoked, unthawed, wire, parsed, record, allowance, sealed>>

\* The host creates an Account record anew at an address that a CloseAccount
\* emptied: zeroed data, the rent-exempt minimum of lamports.
CreateAccount ==
    /\ pc = "idle"
    /\ \E k \in AccountKeys :
        /\ lamports[k] = 0
        /\ lamports' = [lamports EXCEPT ![k] = 1]
        /\ data' = [data EXCEPT ![k] = ZeroData(k)]
    /\ UNCHANGED <<pc, ix, accounts, result, revoked, unthawed, wire, parsed, record, allowance, sealed>>

\* ---- the twelve instructions -----------------------------------------
\* Each step is one call of the entry point with one instruction; its
\* arguments and record lists are drawn from the sets it is given.
InitializeMintStep(lists, mint_authorities, freeze_authorities) ==
    \E accts \in lists, mint_authority \in mint_authorities,
       freeze_authority \in freeze_authorities :
        Call([tag |-> "InitializeMint", decimals |-> 9,
              mint_authority |-> mint_authority,
              freeze_authority |-> freeze_authority], accts)

InitializeAccountStep(lists) ==
    \E accts \in lists : Call([tag |-> "InitializeAccount"], accts)

InitializeMultisigStep(lists, ms) ==
    \E accts \in lists, m \in ms : Call([tag |-> "InitializeMultisig", m |-> m], accts)

TransferStep(lists, amounts) ==
    \E accts \in lists, amount \in amounts :
        Call([tag |-> "Transfer", amount |-> amount], accts)

ApproveStep(lists, amounts) ==
    \E accts \in lists, amount \in amounts :
        Call([tag |-> "Approve", amount |-> amount], accts)

RevokeStep(lists) ==
    \E accts \in lists : Call([tag |-> "Revoke"], accts)

SetAuthorityStep(lists, authority_types, new_authorities) ==
    \E accts \in lists, authority_type \in authority_types,
       new_authority \in new_authorities :
        Call([tag |-> "SetAuthority", authority_type |-> authority_type,
              new_authority |-> new_authority], accts)

MintToStep(lists, amounts) ==
    \E accts \in lists, amount \in amounts :
        Call([tag |-> "MintTo", amount |-> amount], accts)

BurnStep(lists, amounts) ==
    \E accts \in lists, amount \in amounts :
        Call([tag |-> "Burn", amount |-> amount], accts)

CloseAccountStep(lists) ==
    \E accts \in lists : Call([tag |-> "CloseAccount"], accts)

FreezeAccountStep(lists) ==
    \E accts \in lists : Call([tag |-> "FreezeAccount"], accts)

ThawAccountStep(lists) ==
    \E accts \in lists : Call([tag |-> "ThawAccount"], accts)

ObservedApproveStep(lists, amounts) ==
    \E accts \in lists, amount \in amounts :
        ObservedCall([tag |-> "Approve", amount |-> amount], accts)

ObservedRevokeStep(lists) ==
    \E accts \in lists : ObservedCall([tag |-> "Revoke"], accts)

ObservedFreezeAccountStep(lists) ==
    \E accts \in lists : ObservedCall([tag |-> "FreezeAccount"], accts)

ObservedThawAccountStep(lists) ==
    \E accts \in lists : ObservedCall([tag |-> "ThawAccount"], accts)

\* Record lists: every choice of the leading records followed by every
\* presentation of an authority.
Lists(leading, presentations) == {l \o p : l \in leading, p \in presentations}

Amounts == 0..U64Max

\* ---- Spec: the ledger ---------------------------------------------------
\* Two mints M and N under the single-signer authority A, two accounts X
\* and Y owned by B, the delegate D on X.  Authorities are wallets.
Wallet1 == {<<Signed("A")>>, <<Signed("B")>>, <<Signed("D")>>, <<Unsigned("B")>>}

Rent == <<Unsigned(RentId)>>

LedgerInitializeMint ==
    {<<Writable("M")>> \o Rent, <<Writable("N")>> \o Rent,
     <<Unsigned("M")>> \o Rent, <<Writable("X")>> \o Rent,
     <<Writable("M"), Unsigned("A")>>, <<Writable("M")>>}

LedgerInitializeAccount ==
    {<<Writable("X"), Unsigned("M"), Unsigned("B")>> \o Rent,
     <<Writable("Y"), Unsigned("M"), Unsigned("B")>> \o Rent,
     <<Writable("Y"), Unsigned("N"), Unsigned("B")>> \o Rent,
     <<Unsigned("X"), Unsigned("M"), Unsigned("B")>> \o Rent,
     <<Writable("X"), Unsigned("G"), Unsigned("B")>> \o Rent,
     <<Writable("M"), Unsigned("M"), Unsigned("B")>> \o Rent}

LedgerInitializeMultisig ==
    {<<Writable("G")>> \o Rent, <<Writable("G")>> \o Rent \o <<Unsigned("A")>>}

LedgerTransfer ==
    Lists({<<Writable("X"), Writable("Y")>>, <<Writable("Y"), Writable("X")>>}, Wallet1)
    \cup {<<Writable("X"), Writable("X"), Signed("B")>>,
          <<Unsigned("X"), Writable("Y"), Signed("B")>>,
          <<Writable("X"), Writable("M"), Signed("B")>>,
          <<Writable("X"), Writable("Y")>>}

LedgerApprove ==
    Lists({<<Writable("X"), Unsigned("D")>>}, Wallet1)
    \cup {<<Writable("X"), Unsigned("A"), Signed("B")>>}

LedgerRevoke ==
    Lists({<<Writable("X")>>}, Wallet1)

LedgerSetAuthority ==
    {<<Writable("X"), Signed("B")>>, <<Writable("M"), Signed("B")>>,
     <<Unsigned("X"), Signed("B")>>}

LedgerMintTo ==
    Lists({<<Writable("M"), Writable("X")>>, <<Writable("M"), Writable("Y")>>,
           <<Writable("N"), Writable("Y")>>},
          {<<Signed("A")>>, <<Signed("B")>>, <<Unsigned("A")>>})
    \cup {<<Writable("N"), Writable("X"), Signed("A")>>,
          <<Writable("M"), Unsigned("X"), Signed("A")>>}

LedgerBurn ==
    Lists({<<Writable("X"), Writable("M")>>}, Wallet1)
    \cup Lists({<<Writable("Y"), Writable("M")>>, <<Writable("Y"), Writable("N")>>},
               {<<Signed("B")>>})
    \cup {<<Writable("X"), Writable("N"), Signed("B")>>,
          <<Writable("X"), Unsigned("M"), Signed("B")>>}

LedgerCloseAccount ==
    Lists({<<Writable("X"), Writable("A")>>, <<Writable("X"), Writable("Y")>>,
           <<Writable("Y"), Writable("A")>>, <<Writable("Y"), Writable("X")>>},
          {<<Signed("B")>>, <<Signed("D")>>})
    \cup {<<Writable("X"), Writable("X"), Signed("B")>>,
          <<Writable("X"), Unsigned("A"), Signed("B")>>}

LedgerFreeze ==
    Lists({<<Writable("X"), Unsigned("M")>>}, {<<Signed("A")>>, <<Signed("B")>>})
    \cup {<<Writable("Y"), Unsigned("M"), Signed("A")>>}

Next ==
    \/ InitializeMintStep(LedgerInitializeMint, {"A"}, {Some("A")})
    \/ InitializeAccountStep(LedgerInitializeAccount)
    \/ InitializeMultisigStep(LedgerInitializeMultisig, {0, 2})
    \/ TransferStep(LedgerTransfer, Amounts)
    \/ ApproveStep(LedgerApprove, Amounts)
    \/ RevokeStep(LedgerRevoke)
    \/ SetAuthorityStep(LedgerSetAuthority, {AccountOwner, CloseAccount, MintTokens}, {None})
    \/ MintToStep(LedgerMintTo, Amounts)
    \/ BurnStep(LedgerBurn, Amounts)
    \/ CloseAccountStep(LedgerCloseAccount)
    \/ FreezeAccountStep(LedgerFreeze)
    \/ ThawAccountStep(LedgerFreeze)
    \/ Return

Spec == Init /\ [][Next]_vars

\* ---- SpecAuth: authorities -----------------------------------------------
\* One mint M whose authorities are the wallet A or the multisig G, changed
\* and removed by SetAuthority; the account X is frozen, thawed, re-owned
\* and closed; Y receives.
MultisigLists ==
    {<<Unsigned("G")>> \o sl :
        sl \in {<<>>,
                <<Signed("A")>>,
                <<Signed("A"), Signed("B")>>,
                <<Unsigned("A"), Signed("B")>>,
                <<Signed("D"), Signed("A")>>,
                <<Signed("A"), Signed("A")>>,
                <<Signed(ZeroKey)>>}}

AuthInitializeMint ==
    {<<Writable("M")>> \o Rent, <<Unsigned("M")>> \o Rent}

AuthInitializeAccount ==
    {<<Writable("X"), Unsigned("M"), Unsigned("B")>> \o Rent,
     <<Writable("Y"), Unsigned("M"), Unsigned("B")>> \o Rent,
     <<Writable("X"), Unsigned("M"), Unsigned("B"), Unsigned("A")>>}

AuthInitializeMultisig ==
    {<<Writable("G")>> \o Rent,
     <<Writable("G")>> \o Rent \o <<Unsigned("A"), Unsigned("B")>>,
     <<Unsigned("G")>> \o Rent \o <<Unsigned("A"), Unsigned("B")>>}

AuthTransfer ==
    Lists({<<Writable("X"), Writable("Y")>>}, {<<Signed("B")>>, <<Signed("D")>>, <<Signed("A")>>})

AuthApprove ==
    Lists({<<Writable("X"), Unsigned("D")>>}, {<<Signed("B")>>, <<Signed("A")>>})

AuthRevoke ==
    Lists({<<Writable("X")>>}, {<<Signed("B")>>, <<Signed("A")>>, <<Signed("D")>>})

AuthSetMintAuthority ==
    Lists({<<Writable("M")>>},
          {<<Signed("A")>>, <<Signed("B")>>, <<Unsigned("A")>>} \cup MultisigLists)
    \cup {<<Unsigned("M"), Signed("A")>>, <<Writable("A"), Signed("A")>>}

AuthSetAccountAuthority ==
    Lists({<<Writable("X")>>}, {<<Signed("A")>>, <<Signed("B")>>, <<Unsigned("B")>>})

AuthMintTo ==
    Lists({<<Writable("M"), Writable("X")>>},
          {<<Signed("A")>>, <<Signed("B")>>, <<Unsigned("A")>>} \cup MultisigLists)
    \cup {<<Unsigned("M"), Writable("X"), Signed("A")>>}

AuthBurn ==
    Lists({<<Writable("X"), Writable("M")>>}, {<<Signed("B")>>, <<Signed("D")>>, <<Signed("A")>>})

AuthCloseAccount ==
    Lists({<<Writable("X"), Writable("A")>>}, {<<Signed("A")>>, <<Signed("B")>>})
    \cup {<<Writable("Y"), Writable("A"), Signed("B")>>}

AuthFreeze ==
    Lists({<<Writable("X"), Unsigned("M")>>},
          {<<Signed("A")>>, <<Signed("B")>>, <<Unsigned("A")>>,
           <<Unsigned("G"), Signed("A"), Signed("B")>>})
    \cup {<<Unsigned("X"), Unsigned("M"), Signed("A")>>,
          <<Writable("X"), Unsigned("G"), Signed("A")>>}

NextAuth ==
    \/ InitializeMintStep(AuthInitializeMint, {"A", "G"}, {None, Some("A")})
    \/ InitializeAccountStep(AuthInitializeAccount)
    \/ InitializeMultisigStep(AuthInitializeMultisig, 0..3)
    \/ TransferStep(AuthTransfer, {1})
    \/ ApproveStep(AuthApprove, {1})
    \/ RevokeStep(AuthRevoke)
    \/ SetAuthorityStep(AuthSetMintAuthority, {MintTokens, FreezeAccount}, {None, Some("A")})
    \/ SetAuthorityStep(AuthSetAccountAuthority, {AccountOwner, CloseAccount, MintTokens},
                        {None, Some("A")})
    \/ MintToStep(AuthMintTo, {1, U64Max})
    \/ BurnStep(AuthBurn, {1})
    \/ CloseAccountStep(AuthCloseAccount)
    \/ FreezeAccountStep(AuthFreeze)
    \/ ThawAccountStep(AuthFreeze)
    \/ Return

SpecAuth == Init /\ [][NextAuth]_vars

\* Decoded views of the records, for the properties below.
\* ---- SpecLife: the life of an Account --------------------------------------
\* One mint M with the authority A, the accounts X and Y of the owner B:
\* X is funded, frozen, thawed, closed, created anew by the host and
\* initialized again.
LifeInitializeMint ==
    {<<Writable("M")>> \o Rent}

LifeInitializeAccount ==
    {<<Writable("X"), Unsigned("M"), Unsigned("B")>> \o Rent,
     <<Writable("Y"), Unsigned("M"), Unsigned("B")>> \o Rent}

LifeMintTo ==
    {<<Writable("M"), Writable("X"), Signed("A")>>}

LifeTransfer ==
    {<<Writable("X"), Writable("Y"), Signed("B")>>,
     <<Writable("Y"), Writable("X"), Signed("B")>>,
     <<Unsigned("X"), Writable("Y"), Signed("B")>>}

LifeFreeze ==
    Lists({<<Writable("X"), Unsigned("M")>>, <<Writable("Y"), Unsigned("M")>>},
          {<<Signed("A")>>, <<Signed("B")>>})

LifeCloseAccount ==
    Lists({<<Writable("X"), Writable("A")>>}, {<<Signed("B")>>, <<Signed("A")>>})

NextLife ==
    \/ InitializeMintStep(LifeInitializeMint, {"A"}, {Some("A")})
    \/ InitializeAccountStep(LifeInitializeAccount)
    \/ MintToStep(LifeMintTo, {1, U64Max})
    \/ TransferStep(LifeTransfer, Amounts)
    \/ CloseAccountStep(LifeCloseAccount)
    \/ ObservedFreezeAccountStep(LifeFreeze)
    \/ ObservedThawAccountStep(LifeFreeze)
    \/ CreateAccount
    \/ Return

SpecLife == Init /\ [][NextLife]_vars


\* ---- the delegation specification ---------------------------------------
\* One Mint M and the Accounts X and Y of owner B: B delegates X to D or to
\* A, revokes, hands X over to D; B, D and A spend from X. Approve and Revoke
\* are observed.
DelegationInitializeMint == {<<Writable("M")>> \o Rent}

DelegationInitializeAccount ==
    {<<Writable("X"), Unsigned("M"), Unsigned("B")>> \o Rent,
     <<Writable("Y"), Unsigned("M"), Unsigned("B")>> \o Rent}

DelegationMintTo == {<<Writable("M"), Writable("X"), Signed("A")>>}

DelegationApprove ==
    Lists({<<Writable("X"), Unsigned("D")>>, <<Writable("X"), Unsigned("A")>>},
          {<<Signed("B")>>, <<Signed("D")>>})

DelegationRevoke ==
    Lists({<<Writable("X")>>}, Wallet1) \cup {<<Unsigned("X"), Signed("B")>>}

\* The owner hands the Account X to D.
DelegationSetOwner == {<<Writable("X"), Signed("B")>>}

DelegationTransfer ==
    Lists({<<Writable("X"), Writable("Y")>>},
          {<<Signed("B")>>, <<Signed("D")>>, <<Signed("A")>>, <<Unsigned("D")>>})

DelegationBurn ==
    Lists({<<Writable("X"), Writable("M")>>},
          {<<Signed("B")>>, <<Signed("D")>>, <<Signed("A")>>})

DelegationFreeze == {<<Writable("X"), Unsigned("M"), Signed("A")>>}

NextDelegation ==
    \/ InitializeMintStep(DelegationInitializeMint, {"A"}, {Some("A")})
    \/ InitializeAccountStep(DelegationInitializeAccount)
    \/ MintToStep(DelegationMintTo, {1, U64Max})
    \/ ObservedApproveStep(DelegationApprove, Amounts)
    \/ ObservedRevokeStep(DelegationRevoke)
    \/ SetAuthorityStep(DelegationSetOwner, {AccountOwner}, {Some("D")})
    \/ TransferStep(DelegationTransfer, Amounts)
    \/ BurnStep(DelegationBurn, Amounts)
    \/ FreezeAccountStep(DelegationFreeze)
    \/ Return

SpecDelegation == Init /\ [][NextDelegation]_vars


\* ---- the multisig specification -----------------------------------------
\* The Multisig G is initialized with 0, 1, 2, MAX_SIGNERS and
\* MAX_SIGNERS + 1 signer records and with thresholds around each of these
\* counts, then serves as the mint authority of M.
SignerKeys == <<"A", "B", "D", "S4", "S5", "S6", "S7", "S8", "S9", "S10", "S11", "S12">>

SignerRecords(n) == [i \in 1..n |-> Unsigned(SignerKeys[i])]

MultisigInitializeMultisig ==
    {<<Writable("G")>> \o Rent \o SignerRecords(n) : n \in {0, 1, 2, MAX_SIGNERS, MAX_SIGNERS + 1}}
    \cup {<<Writable("G")>> \o Rent \o <<Unsigned("A"), Unsigned("A")>>,
          <<Unsigned("G")>> \o Rent \o SignerRecords(2),
          <<Writable("G"), Unsigned("A"), Unsigned("B")>>}

MultisigThresholds == {0, 1, 2, 3, MAX_SIGNERS, MAX_SIGNERS + 1, MAX_SIGNERS + 2}

MultisigInitializeMint == {<<Writable("M")>> \o Rent}

MultisigInitializeAccount == {<<Writable("X"), Unsigned("M"), Unsigned("B")>> \o Rent}

MultisigMintTo ==
    Lists({<<Writable("M"), Writable("X"), Unsigned("G")>>},
          {<<Signed("A")>>, <<Signed("A"), Signed("A")>>, <<Signed("A"), Signed("B")>>,
           <<Signed("S12")>>})

NextMultisig ==
    \/ InitializeMultisigStep(MultisigInitializeMultisig, MultisigThresholds)
    \/ InitializeMintStep(MultisigInitializeMint, {"G"}, {None})
    \/ InitializeAccountStep(MultisigInitializeAccount)
    \/ MintToStep(MultisigMintTo, {1})
    \/ Return

SpecMultisig == Init /\ [][NextMultisig]_vars


\* ---- the codec specification --------------------------------------------
\* Either a TokenInstruction value is packed and the bytes unpacked, or
\* instruction data is unpacked and, when that succeeds, the value packed.
RECURSIVE ByteSeqs(_, _)
ByteSeqs(bytes, n) ==
    IF n = 0 THEN {<<>>}
    ELSE {<<b>> \o s : b \in bytes, s \in ByteSeqs(bytes, n - 1)}

RECURSIVE Pow256(_)
Pow256(n) == IF n = 0 THEN 1 ELSE 256 * Pow256(n - 1)

CodecKeys == ByteSeqs({0, 1, 255}, PubkeyBytes)

CodecOptionalKeys == {None} \cup {Some(k) : k \in CodecKeys}

CodecAmounts == {0, 1, 255, 256, Pow256(U64Bytes) - 1}

\* TokenInstruction values of all twelve variants.
CodecInstructions ==
    {[tag |-> "InitializeMint", decimals |-> d, mint_authority |-> k, freeze_authority |-> f] :
        d \in {0, 9, 255}, k \in CodecKeys, f \in CodecOptionalKeys}
    \cup {[tag |-> t] : t \in {"InitializeAccount", "Revoke", "CloseAccount",
                              "FreezeAccount", "ThawAccount"}}
    \cup {[tag |-> "InitializeMultisig", m |-> m] : m \in {0, 1, MAX_SIGNERS, 255}}
    \cup {[tag |-> t, amount |-> a] : t \in {"Transfer", "Approve", "MintTo", "Burn"},
                                     a \in CodecAmounts}
    \cup {[tag |-> "SetAuthority", authority_type |-> t, new_authority |-> k] :
            t \in AuthorityType, k \in CodecOptionalKeys}

\* Instruction data: nothing, or a first byte up to one past the last
\* discriminant followed by up to MaxRest bytes.
CodecData ==
    {<<>>} \cup {<<d>> \o r : d \in 0..12,
                             r \in UNION {ByteSeqs({0, 1, 2, 3, 255}, n) : n \in 0..MaxRest}}

InitCodec ==
    /\ lamports = [k \in RecordKeys |-> 0]
    /\ data = [k \in RecordKeys |-> ZeroData(k)]
    /\ accounts = <<>>
    /\ result = "None"
    /\ revoked = [a \in AccountKeys |-> None]
    /\ unthawed = [a \in AccountKeys |-> FALSE]
    /\ allowance = [a \in AccountKeys |-> NoAllowance]
    /\ sealed = [a \in AccountKeys |-> None]
    /\ parsed = NotParsed
    /\ record = NoRecord
    /\ \/ pc = "value" /\ ix \in CodecInstructions /\ wire = <<>>
       \/ pc = "data" /\ ix = NoIx /\ wire \in CodecData

\* instruction.pack()
PackValue ==
    /\ pc = "value"
    /\ wire' = TokenInstruction_pack(ix)
    /\ pc' = "packed"
    /\ UNCHANGED <<lamports, data, ix, accounts, result, revoked, unthawed, parsed, record, allowance, sealed>>

\* TokenInstruction::unpack of what pack produced
UnpackPacked ==
    /\ pc = "packed"
    /\ parsed' = TokenInstruction_unpack(wire)
    /\ pc' = "roundtrip"
    /\ UNCHANGED <<lamports, data, ix, accounts, result, revoked, unthawed, wire, record, allowance, sealed>>

\* TokenInstruction::unpack(instruction_data)
UnpackData ==
    /\ pc = "data"
    /\ parsed' = TokenInstruction_unpack(wire)
    /\ pc' = "unpacked"
    /\ UNCHANGED <<lamports, data, ix, accounts, result, revoked, unthawed, wire, record, allowance, sealed>>

\* pack of the value unpack returned
PackUnpacked ==
    /\ pc = "unpacked"
    /\ parsed.ok
    /\ wire' = TokenInstruction_pack(parsed.val)
    /\ pc' = "repacked"
    /\ UNCHANGED <<lamports, data, ix, accounts, result, revoked, unthawed, parsed, record, allowance, sealed>>

NextCodec == PackValue \/ UnpackPacked \/ UnpackData \/ PackUnpacked

SpecCodec == InitCodec /\ [][NextCodec]_vars


\* ---- the record codec specification -------------------------------------
\* A Mint, Account or Multisig value is packed and the bytes are unpacked.
RecordPubkeys == {Zeros(32), <<1>> \o Zeros(31), [i \in 1..32 |-> 255]}

RecordOptionalPubkeys == {None} \cup {Some(k) : k \in RecordPubkeys \ {Zeros(32)}}

RecordAmounts == {0, 256, 1000000000}

MintValues ==
    [mint_authority : RecordOptionalPubkeys,
     supply : RecordAmounts,
     decimals : {0, 9, 255},
     is_initialized : BOOLEAN,
     freeze_authority : {None, Some(Zeros(32)), Some([i \in 1..32 |-> 255])}]

AccountValues ==
    [mint : {<<1>> \o Zeros(31)},
     owner : RecordPubkeys,
     amount : RecordAmounts,
     delegate : RecordOptionalPubkeys,
     state : {Uninitialized, Initialized, Frozen},
     is_native : {None, Some(0), Some(256)},
     delegated_amount : {0, 1},
     close_authority : {None, Some(Zeros(32))}]

\* Signers arrays: all default keys, the first n slots filled, every slot
\* filled.
MultisigSigners(n) ==
    {[i \in 1..MAX_SIGNERS |-> Zeros(32)],
     [i \in 1..MAX_SIGNERS |-> IF i <= n THEN <<i>> \o Zeros(31) ELSE Zeros(32)],
     [i \in 1..MAX_SIGNERS |-> <<i>> \o Zeros(31)]}

\* Multisig values, those that Multisig::unpack refuses among them.
MultisigValues ==
    {[m |-> m, n |-> n, is_initialized |-> b, signers |-> s] :
        m \in {0, 1, 2, MAX_SIGNERS, MAX_SIGNERS + 1},
        n \in {0, 1, 2, MAX_SIGNERS, MAX_SIGNERS + 1},
        b \in BOOLEAN,
        s \in MultisigSigners(2)}

InitRecords ==
    /\ lamports = [k \in RecordKeys |-> 0]
    /\ data = [k \in RecordKeys |-> ZeroData(k)]
    /\ accounts = <<>>
    /\ result = "None"
    /\ revoked = [a \in AccountKeys |-> None]
    /\ unthawed = [a \in AccountKeys |-> FALSE]
    /\ allowance = [a \in AccountKeys |-> NoAllowance]
    /\ sealed = [a \in AccountKeys |-> None]
    /\ ix = NoIx
    /\ wire = <<>>
    /\ parsed = NotParsed
    /\ pc = "record"
    /\ \/ record \in {[kind |-> "Mint", val |-> v] : v \in MintValues}
       \/ record \in {[kind |-> "Account", val |-> v] : v \in AccountValues}
       \/ record \in {[kind |-> "Multisig", val |-> v] : v \in MultisigValues}

\* record.pack(&mut packed)
PackRecord ==
    /\ pc = "record"
    /\ wire' = Record_pack(record.kind, record.val)
    /\ pc' = "recordpacked"
    /\ UNCHANGED <<lamports, data, ix, accounts, result, revoked, unthawed, parsed, record, allowance, sealed>>

\* unpack(&packed)
UnpackRecord ==
    /\ pc = "recordpacked"
    /\ parsed' = Record_unpack(record.kind, wire)
    /\ pc' = "recordroundtrip"
    /\ UNCHANGED <<lamports, data, ix, accounts, result, revoked, unthawed, wire, record, allowance, sealed>>

NextRecords == PackRecord \/ UnpackRecord

SpecRecords == InitRecords /\ [][NextRecords]_vars


\* ---- the authority detection specification ------------------------------
\* The mint authority of M is handed around between the Multisig G, the
\* record H, the wallet A and the Mint N, each presented signed or unsigned,
\* with and without trailing signer records.
DetectionInitializeMultisig == {<<Writable("G")>> \o Rent \o <<Unsigned("A"), Unsigned("B")>>}
DetectionInitializeMint == {<<Writable("M")>> \o Rent}
DetectionAuthorities == {"G", "H", "A", "N"}
DetectionSetAuthority == Lists({<<Writable("M")>>}, Lists({<<AI(k, s, FALSE)>> : k \in DetectionAuthorities, s \in BOOLEAN}, {<<>>, <<Signed("A")>>, <<Signed("A"), Signed("B")>>}))

NextDetection == InitializeMultisigStep(DetectionInitializeMultisig, {1, 2}) \/ InitializeMintStep(DetectionInitializeMint, DetectionAuthorities, {None}) \/ SetAuthorityStep(DetectionSetAuthority, {MintTokens}, {Some(k) : k \in DetectionAuthorities}) \/ Return

SpecDetection == Init /\ [][NextDetection]_vars


\* ---- the owner-or-delegate specification --------------------------------
\* The Account X of the wallet B or of the 2-of-2 Multisig G, with the
\* delegate D or with its owner B as delegate, is spent from by owner,
\* delegate and others, signed and unsigned.
ChooserInitializeMultisig == {<<Writable("G")>> \o Rent \o <<Unsigned("A"), Unsigned("B")>>}

ChooserInitializeMint == {<<Writable("M")>> \o Rent}

ChooserInitializeAccount ==
    {<<Writable("X"), Unsigned("M"), Unsigned("B")>> \o Rent,
     <<Writable("X"), Unsigned("M"), Unsigned("G")>> \o Rent,
     <<Writable("Y"), Unsigned("M"), Unsigned("B")>> \o Rent}

ChooserMintTo == {<<Writable("M"), Writable("X"), Signed("A")>>}

ChooserApprove ==
    {<<Writable("X"), Unsigned("D"), Signed("B")>>,
     <<Writable("X"), Unsigned("B"), Signed("B")>>,
     <<Writable("X"), Unsigned("D"), Unsigned("G"), Signed("A"), Signed("B")>>}

ChooserPresenters ==
    {<<Signed("B")>>, <<Unsigned("B")>>, <<Signed("D")>>, <<Unsigned("D")>>, <<Signed("A")>>,
     <<Unsigned("G"), Signed("A")>>, <<Unsigned("G"), Signed("A"), Signed("B")>>}

ChooserTransfer == Lists({<<Writable("X"), Writable("Y")>>}, ChooserPresenters)

ChooserBurn == Lists({<<Writable("X"), Writable("M")>>}, ChooserPresenters)

NextChooser ==
    \/ InitializeMultisigStep(ChooserInitializeMultisig, {2})
    \/ InitializeMintStep(ChooserInitializeMint, {"A"}, {None})
    \/ InitializeAccountStep(ChooserInitializeAccount)
    \/ MintToStep(ChooserMintTo, {U64Max})
    \/ ApproveStep(ChooserApprove, {1})
    \/ TransferStep(ChooserTransfer, {1})
    \/ BurnStep(ChooserBurn, {1})
    \/ Return

SpecChooser == Init /\ [][NextChooser]_vars


\* ---- the check order specification --------------------------------------
\* Transfers that fail several checks at once: between the Accounts X and Y
\* of the owner B, of one Mint or of two, funded or not, frozen or not, with
\* the delegate D on X, presented by owner, delegate and others; and with a
\* Mint, a wallet or the source itself as destination.
OrderInitializeMint == {<<Writable("M")>> \o Rent, <<Writable("N")>> \o Rent}

OrderInitializeAccount ==
    {<<Writable("X"), Unsigned("M"), Unsigned("B")>> \o Rent,
     <<Writable("Y"), Unsigned("M"), Unsigned("B")>> \o Rent,
     <<Writable("Y"), Unsigned("N"), Unsigned("B")>> \o Rent}

OrderMintTo == {<<Writable("M"), Writable("X"), Signed("A")>>}

OrderApprove == {<<Writable("X"), Unsigned("D"), Signed("B")>>}

OrderFreeze ==
    {<<Writable("X"), Unsigned("M"), Signed("A")>>,
     <<Writable("Y"), Unsigned("M"), Signed("A")>>}

OrderTransfer ==
    Lists({<<Writable("X"), Writable("Y")>>},
          {<<Signed("B")>>, <<Signed("D")>>, <<Signed("A")>>, <<Unsigned("B")>>})
    \cup Lists({<<Writable("X"), Writable("X")>>, <<Unsigned("X"), Writable("Y")>>,
                <<Writable("X"), Unsigned("Y")>>, <<Writable("X"), Writable("M")>>,
                <<Writable("X"), Writable("A")>>, <<Writable("A"), Writable("Y")>>,
                <<Unsigned("M"), Unsigned("A")>>},
               {<<Signed("B")>>, <<Signed("A")>>})

NextOrder ==
    \/ InitializeMintStep(OrderInitializeMint, {"A"}, {Some("A")})
    \/ InitializeAccountStep(OrderInitializeAccount)
    \/ MintToStep(OrderMintTo, {1})
    \/ ApproveStep(OrderApprove, {1})
    \/ FreezeAccountStep(OrderFreeze)
    \/ TransferStep(OrderTransfer, Amounts)
    \/ Return

SpecOrder == Init /\ [][NextOrder]_vars


\* ---- the close authority specification ----------------------------------
\* The empty Account X of the owner B: its close authority is set to A or D
\* and removed, its owner is changed, and it is closed, each presented by A,
\* B and D.
CloseInitializeMint == {<<Writable("M")>> \o Rent}

CloseInitializeAccount == {<<Writable("X"), Unsigned("M"), Unsigned("B")>> \o Rent}

ClosePresenters == {<<Signed("A")>>, <<Signed("B")>>, <<Signed("D")>>, <<Unsigned("A")>>}

CloseSetAuthority == Lists({<<Writable("X")>>}, ClosePresenters)

CloseCloseAccount == Lists({<<Writable("X"), Writable("D")>>}, ClosePresenters)

NextClose ==
    \/ InitializeMintStep(CloseInitializeMint, {"A"}, {None})
    \/ InitializeAccountStep(CloseInitializeAccount)
    \/ SetAuthorityStep(CloseSetAuthority, {CloseAccount, AccountOwner}, {None, Some("A"), Some("D")})
    \/ CloseAccountStep(CloseCloseAccount)
    \/ Return

SpecClose == Init /\ [][NextClose]_vars


\* ---- the allowance specification ----------------------------------------
\* The Account X of the owner B is funded, D is approved for 0 to U64Max,
\* owner and delegate move tokens out by Transfer and Burn, Y sends tokens
\* back, and the allowance is revoked, approved anew or ended by a change of
\* owner.
AllowanceInitializeMint == {<<Writable("M")>> \o Rent}

AllowanceInitializeAccount ==
    {<<Writable("X"), Unsigned("M"), Unsigned("B")>> \o Rent,
     <<Writable("Y"), Unsigned("M"), Unsigned("B")>> \o Rent}

AllowanceMintTo == {<<Writable("M"), Writable("X"), Signed("A")>>}

AllowanceApprove == {<<Writable("X"), Unsigned("D"), Signed("B")>>}

AllowanceRevoke == {<<Writable("X"), Signed("B")>>}

AllowanceSetOwner == {<<Writable("X"), Signed("B")>>}

AllowanceTransfer ==
    {<<Writable("X"), Writable("Y"), Signed("D")>>,
     <<Writable("X"), Writable("Y"), Signed("B")>>,
     <<Writable("Y"), Writable("X"), Signed("B")>>}

AllowanceBurn == {<<Writable("X"), Writable("M"), Signed("D")>>}

NextAllowance ==
    \/ InitializeMintStep(AllowanceInitializeMint, {"A"}, {None})
    \/ InitializeAccountStep(AllowanceInitializeAccount)
    \/ MintToStep(AllowanceMintTo, {U64Max})
    \/ \E accts \in AllowanceApprove, amount \in Amounts : AllowanceCall([tag |-> "Approve", amount |-> amount], accts)
    \/ \E accts \in AllowanceRevoke : AllowanceCall([tag |-> "Revoke"], accts)
    \/ \E accts \in AllowanceSetOwner : AllowanceCall([tag |-> "SetAuthority", authority_type |-> AccountOwner, new_authority |-> Some("B")], accts)
    \/ \E accts \in AllowanceTransfer, amount \in Amounts : AllowanceCall([tag |-> "Transfer", amount |-> amount], accts)
    \/ \E accts \in AllowanceBurn, amount \in Amounts : AllowanceCall([tag |-> "Burn", amount |-> amount], accts)
    \/ Return

SpecAllowance == Init /\ [][NextAllowance]_vars

\* ---- the permanent freeze specification ----------------------------------
\* The Mint M has the freeze authority A; the Accounts X and Y of M belong to
\* B.  X is frozen with or without tokens, the freeze authority of M is given
\* up, and every instruction that could thaw, empty, close or initialise X
\* again is offered, the lamports of a closed Y going to X.

SealInitializeMint == {<<Writable("M")>> \o Rent}

SealInitializeAccount ==
    {<<Writable("X"), Unsigned("M"), Unsigned("B")>> \o Rent,
     <<Writable("Y"), Unsigned("M"), Unsigned("B")>> \o Rent}

SealMintTo == {<<Writable("M"), Writable("X"), Signed("A")>>, <<Writable("M"), Writable("Y"), Signed("A")>>}

SealFreeze == {<<Writable("X"), Unsigned("M"), Signed("A")>>}

SealSetAuthority == {<<Writable("M"), Signed("A")>>}

SealTransfer ==
    {<<Writable("X"), Writable("Y"), Signed("B")>>,
     <<Writable("Y"), Writable("X"), Signed("B")>>}

SealBurn == {<<Writable("X"), Writable("M"), Signed("B")>>}

SealCloseAccount ==
    {<<Writable("X"), Writable("A"), Signed("B")>>,
     <<Writable("Y"), Writable("X"), Signed("B")>>}

NextSeal ==
    \/ InitializeMintStep(SealInitializeMint, {"A"}, {Some("A")})
    \/ InitializeAccountStep(SealInitializeAccount)
    \/ MintToStep(SealMintTo, {1})
    \/ FreezeAccountStep(SealFreeze)
    \/ ThawAccountStep(SealFreeze)
    \/ \E accts \in SealSetAuthority, new_authority \in {None, Some("A")} : SealCall([tag |-> "SetAuthority", authority_type |-> FreezeAccount, new_authority |-> new_authority], accts)
    \/ TransferStep(SealTransfer, {1})
    \/ BurnStep(SealBurn, {1})
    \/ CloseAccountStep(SealCloseAccount)
    \/ Return

SpecSeal == Init /\ [][NextSeal]_vars

\* ---- the arithmetic specification ----------------------------------------
\* Two Mints of the authority A and two Accounts of the owner B, Y of either
\* Mint.  Every amount up to U64Max is minted, moved both ways and to the
\* source itself, and burned, with the Account's Mint and with the other; an
\* empty Account is closed into the other one and initialised again.

ArithInitializeMint == {<<Writable("M")>> \o Rent, <<Writable("N")>> \o Rent}

ArithInitializeAccount ==
    {<<Writable("X"), Unsigned("M"), Unsigned("B")>> \o Rent,
     <<Writable("Y"), Unsigned("M"), Unsigned("B")>> \o Rent,
     <<Writable("Y"), Unsigned("N"), Unsigned("B")>> \o Rent}

ArithMintTo ==
    {<<Writable("M"), Writable("X"), Signed("A")>>,
     <<Writable("M"), Writable("Y"), Signed("A")>>,
     <<Writable("N"), Writable("Y"), Signed("A")>>}

ArithTransfer ==
    {<<Writable("X"), Writable("Y"), Signed("B")>>,
     <<Writable("Y"), Writable("X"), Signed("B")>>,
     <<Writable("X"), Writable("X"), Signed("B")>>}

ArithBurn ==
    {<<Writable("X"), Writable("M"), Signed("B")>>,
     <<Writable("Y"), Writable("M"), Signed("B")>>,
     <<Writable("Y"), Writable("N"), Signed("B")>>}

ArithCloseAccount ==
    {<<Writable("X"), Writable("Y"), Signed("B")>>,
     <<Writable("Y"), Writable("X"), Signed("B")>>}

NextArith ==
    \/ InitializeMintStep(ArithInitializeMint, {"A"}, {None})
    \/ InitializeAccountStep(ArithInitializeAccount)
    \/ MintToStep(ArithMintTo, Amounts)
    \/ TransferStep(ArithTransfer, Amounts)
    \/ BurnStep(ArithBurn, Amounts)
    \/ CloseAccountStep(ArithCloseAccount)
    \/ Return

SpecArith == Init /\ [][NextArith]_vars

MintOf(dat, k) == Mint_unpack(dat[k]).val
AccountOf(dat, k) == Account_unpack(dat[k]).val
MultisigOf(dat, k) == Multisig_unpack(dat[k]).val

TypeOK ==
    /\ pc \in {"idle", "returned"}
    /\ \A k \in RecordKeys : lamports[k] \in 0..U64Max
    /\ \A k \in MintKeys : Mint_unpack(data[k]).ok /\ MintOf(data, k).supply \in 0..U64Max
    /\ \A k \in AccountKeys : Account_unpack(data[k]).ok /\ AccountOf(data, k).amount \in 0..U64Max
    /\ \A k \in MultisigKeys : Multisig_unpack(data[k]).ok
    /\ \A a \in AccountKeys : revoked[a] \in {None} \cup {Some(w) : w \in Wallets}
    /\ \A a \in AccountKeys : unthawed[a] \in BOOLEAN

\* A call has just returned in the primed state.
Returned == pc = "idle" /\ pc' = "returned"

\* ------------------------------------------------------------------------
\* Supply conservation
\* ------------------------------------------------------------------------
RECURSIVE SumAmounts(_, _, _)
SumAmounts(dat, m, keys) ==
    IF keys = {} THEN 0
    ELSE LET a == CHOOSE k \in keys : TRUE
             account == AccountOf(dat, a)
         IN  (IF is_initialized(account) /\ account.mint = m THEN account.amount ELSE 0)
             + SumAmounts(dat, m, keys \ {a})

\* C1: in every reachable state, the supply of each initialized Mint equals
\* the sum of the amounts of the initialized Accounts bound to it.
C1_SupplyConservation ==
    \A m \in MintKeys :
        MintOf(data, m).is_initialized
            => MintOf(data, m).supply = SumAmounts(data, m, AccountKeys)

\* Both mints hold supply after some of it was burned.
C1_Witness ==
    /\ pc = "returned" /\ ix.tag = "Burn" /\ result = "Ok"
    /\ MintOf(data, "M").supply = 1
    /\ MintOf(data, "N").supply = U64Max
    /\ AccountOf(data, "X").amount = 1
    /\ AccountOf(data, "Y").mint = "N"

\* ------------------------------------------------------------------------
\* No partial mutation
\* ------------------------------------------------------------------------
\* C2: when Processor::process returns an error, the data and lamports of
\* every record are what they were before the call.
C2_NoPartialMutation ==
    [][(Returned /\ result' # "Ok") => (data' = data /\ lamports' = lamports)]_vars

\* A CloseAccount that passed every check but the last one it makes.
C2_Witness ==
    /\ pc = "returned" /\ ix.tag = "CloseAccount" /\ result = "Overflow"
    /\ lamports[accounts[1].key] > 0

\* ------------------------------------------------------------------------
\* Delegate coherence
\* ------------------------------------------------------------------------
\* C3: every initialized Account has delegate = none when delegated_amount
\* is 0 and delegate = some when delegated_amount is positive.
C3_DelegateCoherence ==
    \A a \in AccountKeys :
        LET account == AccountOf(data, a)
        IN  is_initialized(account) =>
                /\ account.delegated_amount = 0 => account.delegate = None
                /\ account.delegated_amount > 0 => is_some(account.delegate)

\* ------------------------------------------------------------------------
\* Frozen safety
\* ------------------------------------------------------------------------
\* The fields of an Account other than its state, its mint and its native
\* marker.
HeldFields(account) ==
    <<account.amount, account.owner, account.delegate,
      account.delegated_amount, account.close_authority>>

\* C4: a call other than ThawAccount leaves the amount, owner, delegate,
\* delegated_amount and close_authority of every Frozen Account as they
\* were, and ThawAccount changes nothing of a Frozen Account but its state.
C4_FrozenSafety ==
    [][Returned =>
        \A a \in AccountKeys :
            is_frozen(AccountOf(data, a)) =>
                IF ix'.tag = "ThawAccount"
                THEN is_initialized(AccountOf(data', a))
                     /\ [AccountOf(data', a) EXCEPT !.state = Frozen] = AccountOf(data, a)
                ELSE is_initialized(AccountOf(data', a))
                     /\ HeldFields(AccountOf(data', a)) = HeldFields(AccountOf(data, a))]_vars

\* ------------------------------------------------------------------------
\* Initialization monotonicity
\* ------------------------------------------------------------------------
\* C5: an initialized Mint or Multisig stays initialized in every step, and
\* an Account that is not Uninitialized becomes Uninitialized only in a
\* successful CloseAccount on it, which leaves its whole buffer zeroed.
C5_InitializationMonotonicity ==
    [][/\ \A m \in MintKeys :
            MintOf(data, m).is_initialized => MintOf(data', m).is_initialized
       /\ \A g \in MultisigKeys :
            MultisigOf(data, g).is_initialized => MultisigOf(data', g).is_initialized
       /\ \A a \in AccountKeys :
            (is_initialized(AccountOf(data, a)) /\ ~is_initialized(AccountOf(data', a)))
                => /\ Returned /\ ix'.tag = "CloseAccount" /\ result' = "Ok"
                   /\ accounts'[1].key = a
                   /\ data'[a] = ZeroData(a)]_vars

\* An Account was closed while the Mint, the Multisig and the other Account
\* are initialized, the other Account being Frozen.
C5_Witness ==
    /\ pc = "returned" /\ ix.tag = "CloseAccount" /\ result = "Ok"
    /\ data[accounts[1].key] = ZeroData(accounts[1].key)
    /\ MintOf(data, "M").is_initialized
    /\ MultisigOf(data, "G").is_initialized
    /\ \E a \in AccountKeys : is_frozen(AccountOf(data, a))

\* ------------------------------------------------------------------------
\* Fixed supply
\* ------------------------------------------------------------------------
\* The records of a MintTo pass every check made before the mint authority
\* is looked at.
MintToRecordsValid(dat, accts) ==
    /\ Len(accts) >= 3
    /\ accts[1].key \in MintKeys /\ accts[1].is_writable
    /\ accts[2].key \in AccountKeys /\ accts[2].is_writable
    /\ MintOf(dat, accts[1].key).is_initialized
    /\ AccountOf(dat, accts[2].key).state = Initialized
    /\ AccountOf(dat, accts[2].key).mint = accts[1].key

\* C6: an initialized Mint whose mint_authority is none keeps it none in
\* every step, its supply does not increase, and a MintTo on it fails, with
\* MintAuthorityRequired when its records pass validation.
C6_FixedSupplyTerminal ==
    [][\A m \in MintKeys :
        (MintOf(data, m).is_initialized /\ MintOf(data, m).mint_authority = None) =>
            /\ MintOf(data', m).mint_authority = None
            /\ MintOf(data', m).supply <= MintOf(data, m).supply
            /\ (Returned /\ ix'.tag = "MintTo" /\ Len(accounts') >= 1 /\ accounts'[1].key = m)
                   => /\ result' # "Ok"
                      /\ MintToRecordsValid(data, accounts')
                             => result' = "MintAuthorityRequired"]_vars

\* A MintTo on a Mint with supply and no mint authority was refused.
C6_Witness ==
    /\ pc = "returned" /\ ix.tag = "MintTo" /\ result = "MintAuthorityRequired"
    /\ MintOf(data, accounts[1].key).mint_authority = None
    /\ MintOf(data, accounts[1].key).supply > 0
    /\ MintToRecordsValid(data, accounts)

\* ------------------------------------------------------------------------
\* Freeze authority removal
\* ------------------------------------------------------------------------
\* The call names the Mint m as the one whose freeze authority it needs.
FreezeCallOn(instruction, accts, m) ==
    \/ /\ instruction.tag \in {"FreezeAccount", "ThawAccount"}
       /\ Len(accts) >= 2 /\ accts[2].key = m
    \/ /\ instruction.tag = "SetAuthority"
       /\ instruction.authority_type = FreezeAccount
       /\ Len(accts) >= 1 /\ accts[1].key = m

\* The records of such a call pass every check made before the freeze
\* authority is looked at.
FreezeRecordsValid(dat, instruction, accts) ==
    IF instruction.tag = "SetAuthority"
    THEN /\ Len(accts) >= 2
         /\ accts[1].key \in MintKeys /\ accts[1].is_writable
         /\ MintOf(dat, accts[1].key).is_initialized
    ELSE /\ Len(accts) >= 3
         /\ accts[1].key \in AccountKeys /\ accts[1].is_writable
         /\ accts[2].key \in MintKeys
         /\ is_initialized(AccountOf(dat, accts[1].key))
         /\ MintOf(dat, accts[2].key).is_initialized
         /\ AccountOf(dat, accts[1].key).mint = accts[2].key

\* No Account of the Mint m goes from Initialized to Frozen or back.
NoFreezeChange(dat, dat2, m) ==
    \A a \in AccountKeys :
        (is_initialized(AccountOf(dat, a)) /\ AccountOf(dat, a).mint = m)
            => {AccountOf(dat, a).state, AccountOf(dat2, a).state} # {Initialized, Frozen}

\* C7 as stated: an initialized Mint whose freeze_authority is none keeps it
\* none, every FreezeAccount, ThawAccount and SetAuthority(FreezeAccount) on
\* it fails with FreezeAuthorityRequired, and no Account of it changes
\* between Initialized and Frozen.
C7_Original ==
    [][\A m \in MintKeys :
        (MintOf(data, m).is_initialized /\ MintOf(data, m).freeze_authority = None) =>
            /\ MintOf(data', m).freeze_authority = None
            /\ NoFreezeChange(data, data', m)
            /\ (Returned /\ FreezeCallOn(ix', accounts', m))
                   => result' = "FreezeAuthorityRequired"]_vars

\* C7 amended: an initialized Mint whose freeze_authority is none keeps it
\* none, every FreezeAccount, ThawAccount and SetAuthority(FreezeAccount) on
\* it fails, with FreezeAuthorityRequired when its records pass validation,
\* and no Account of it changes between Initialized and Frozen.
C7_FreezeAuthorityRemovalTerminal ==
    [][\A m \in MintKeys :
        (MintOf(data, m).is_initialized /\ MintOf(data, m).freeze_authority = None) =>
            /\ MintOf(data', m).freeze_authority = None
            /\ NoFreezeChange(data, data', m)
            /\ (Returned /\ FreezeCallOn(ix', accounts', m))
                   => /\ result' # "Ok"
                      /\ FreezeRecordsValid(data, ix', accounts')
                             => result' = "FreezeAuthorityRequired"]_vars

\* A FreezeAccount on an Account of a Mint that has a mint authority but no
\* freeze authority was refused.
C7_Witness ==
    /\ pc = "returned" /\ ix.tag = "FreezeAccount" /\ result = "FreezeAuthorityRequired"
    /\ FreezeRecordsValid(data, ix, accounts)
    /\ MintOf(data, accounts[2].key).freeze_authority = None
    /\ is_some(MintOf(data, accounts[2].key).mint_authority)
    /\ accounts[3].key = unwrap(MintOf(data, accounts[2].key).mint_authority)

\* ------------------------------------------------------------------------
\* Presented authorities
\* ------------------------------------------------------------------------
\* The record at position n of the list is the expected authority and has
\* signed, or is the expected, initialized multisig and at least m of the
\* records after it have signed and are enrolled in it.
PresentedAuthorityValid(dat, expected, accts, n) ==
    /\ Len(accts) >= n
    /\ accts[n].key = expected
    /\ IF accts[n].key \in MultisigKeys
       THEN LET g == MultisigOf(dat, accts[n].key)
            IN  /\ g.is_initialized
                /\ Cardinality({i \in (n + 1)..Len(accts) :
                                   /\ accts[i].is_signer
                                   /\ \E j \in 1..g.n : g.signers[j] = accts[i].key}) >= g.m
       ELSE accts[n].is_signer

\* ------------------------------------------------------------------------
\* MintTo
\* ------------------------------------------------------------------------
\* The MintTo passes validation and authority.
MintToAdmitted(dat, accts) ==
    /\ MintToRecordsValid(dat, accts)
    /\ is_some(MintOf(dat, accts[1].key).mint_authority)
    /\ PresentedAuthorityValid(dat, unwrap(MintOf(dat, accts[1].key).mint_authority), accts, 3)

\* C8: a MintTo(amount) that passes validation and authority fails with
\* Overflow and changes nothing when supply + amount exceeds the largest
\* u64, and otherwise succeeds and adds exactly amount to the supply of the
\* Mint and to the amount of the destination.
C8_MintToExact ==
    [][(Returned /\ ix'.tag = "MintTo" /\ MintToAdmitted(data, accounts')) =>
        LET m == accounts'[1].key
            d == accounts'[2].key
        IN  IF MintOf(data, m).supply + ix'.amount > U64Max
            THEN result' = "Overflow" /\ data' = data /\ lamports' = lamports
            ELSE /\ result' = "Ok"
                 /\ MintOf(data', m).supply = MintOf(data, m).supply + ix'.amount
                 /\ AccountOf(data', d).amount = AccountOf(data, d).amount + ix'.amount
                 /\ MintOf(data', m).supply >= MintOf(data, m).supply]_vars

\* An admitted MintTo of a positive amount on a Mint with supply was refused
\* for overflow.
C8_Witness ==
    /\ pc = "returned" /\ ix.tag = "MintTo" /\ result = "Overflow"
    /\ MintToAdmitted(data, accounts)
    /\ MintOf(data, accounts[1].key).supply > 0
    /\ MintOf(data, accounts[1].key).supply < U64Max
    /\ ix.amount > 0

\* C9: the supply of a Mint increases in a step only if the step is a
\* successful MintTo on it whose presented authority is the Mint's current
\* mint_authority and has signed (alone, or as a multisig with enough
\* signers); a MintTo on an initialized Mint without such an authority
\* fails and changes nothing.
C9_MintingAuthorized ==
    [][\A m \in MintKeys :
        LET authorized ==
                /\ is_some(MintOf(data, m).mint_authority)
                /\ PresentedAuthorityValid(data, unwrap(MintOf(data, m).mint_authority),
                                           accounts', 3)
        IN  /\ MintOf(data', m).supply > MintOf(data, m).supply
                => /\ Returned /\ ix'.tag = "MintTo" /\ result' = "Ok"
                   /\ accounts'[1].key = m
                   /\ authorized
            /\ (/\ Returned /\ ix'.tag = "MintTo"
                /\ Len(accounts') >= 1 /\ accounts'[1].key = m
                /\ ~authorized)
                => result' # "Ok" /\ data' = data /\ lamports' = lamports]_vars

\* A MintTo authorized by the multisig with two signers succeeded.
C9_Witness ==
    /\ pc = "returned" /\ ix.tag = "MintTo" /\ result = "Ok"
    /\ accounts[3].key = "G"
    /\ MintOf(data, accounts[1].key).mint_authority = Some("G")
    /\ MultisigOf(data, "G").m = 2
    /\ MintOf(data, accounts[1].key).supply > 0

\* ------------------------------------------------------------------------
\* Transfer
\* ------------------------------------------------------------------------
\* The Transfer is between two distinct, writable, initialized, unfrozen
\* Accounts of one mint and is presented by the owner or the delegate of
\* the source.
TransferAdmitted(dat, accts) ==
    /\ Len(accts) >= 3
    /\ accts[1].key \in AccountKeys /\ accts[1].is_writable
    /\ accts[2].key \in AccountKeys /\ accts[2].is_writable
    /\ accts[1].key # accts[2].key
    /\ AccountOf(dat, accts[1].key).state = Initialized
    /\ AccountOf(dat, accts[2].key).state = Initialized
    /\ AccountOf(dat, accts[1].key).mint = AccountOf(dat, accts[2].key).mint
    /\ \/ PresentedAuthorityValid(dat, AccountOf(dat, accts[1].key).owner, accts, 3)
       \/ /\ is_some(AccountOf(dat, accts[1].key).delegate)
          /\ PresentedAuthorityValid(dat, unwrap(AccountOf(dat, accts[1].key).delegate),
                                     accts, 3)

\* C10: a successful Transfer(amount) lowers the amount of the source by
\* exactly amount and raises the amount of the destination by exactly
\* amount, leaving their sum and every supply unchanged; a Transfer(0)
\* between two initialized, unfrozen Accounts of one mint, presented by the
\* owner or the delegate of the source, succeeds and leaves both amounts
\* unchanged.
C10_TransferExact ==
    [][(Returned /\ ix'.tag = "Transfer") =>
        /\ result' = "Ok" =>
            LET s == accounts'[1].key
                d == accounts'[2].key
            IN  /\ s # d
                /\ AccountOf(data', s).amount = AccountOf(data, s).amount - ix'.amount
                /\ AccountOf(data', d).amount = AccountOf(data, d).amount + ix'.amount
                /\ AccountOf(data', s).amount + AccountOf(data', d).amount
                       = AccountOf(data, s).amount + AccountOf(data, d).amount
                /\ \A m \in MintKeys : MintOf(data', m).supply = MintOf(data, m).supply
        /\ (ix'.amount = 0 /\ TransferAdmitted(data, accounts')) =>
            /\ result' = "Ok"
            /\ AccountOf(data', accounts'[1].key).amount
                   = AccountOf(data, accounts'[1].key).amount
            /\ AccountOf(data', accounts'[2].key).amount
                   = AccountOf(data, accounts'[2].key).amount]_vars

\* A Transfer of the whole balance of the source succeeded.
C10_Witness ==
    /\ pc = "returned" /\ ix.tag = "Transfer" /\ result = "Ok"
    /\ ix.amount = U64Max
    /\ AccountOf(data, accounts[1].key).amount = 0
    /\ AccountOf(data, accounts[2].key).amount = U64Max

\* A Transfer of nothing by the delegate succeeded on balances that stay.
C10_WitnessZero ==
    /\ pc = "returned" /\ ix.tag = "Transfer" /\ result = "Ok"
    /\ ix.amount = 0
    /\ accounts[3].key = "D"
    /\ AccountOf(data, accounts[1].key).amount > 0

\* ------------------------------------------------------------------------
\* Spending
\* ------------------------------------------------------------------------
\* The record at position 3 is the owner of the Account a, or its delegate,
\* and has signed.
SpendAuthorized(dat, a, accts) ==
    \/ PresentedAuthorityValid(dat, AccountOf(dat, a).owner, accts, 3)
    \/ /\ is_some(AccountOf(dat, a).delegate)
       /\ PresentedAuthorityValid(dat, unwrap(AccountOf(dat, a).delegate), accts, 3)

\* C11: the amount of an Account decreases in a step only if the step is a
\* successful Transfer from it or Burn on it presented by its current owner
\* or its current delegate; a Transfer or Burn presented by any other key
\* fails and changes nothing.
C11_SpendingAuthorized ==
    [][\A a \in AccountKeys :
        /\ AccountOf(data', a).amount < AccountOf(data, a).amount
               => /\ Returned /\ ix'.tag \in {"Transfer", "Burn"} /\ result' = "Ok"
                  /\ accounts'[1].key = a
                  /\ SpendAuthorized(data, a, accounts')
        /\ (/\ Returned /\ ix'.tag \in {"Transfer", "Burn"}
            /\ Len(accounts') >= 1 /\ accounts'[1].key = a
            /\ ~SpendAuthorized(data, a, accounts'))
               => result' # "Ok" /\ data' = data /\ lamports' = lamports]_vars

\* A Transfer of a positive amount presented by the delegate succeeded.
C11_Witness ==
    /\ pc = "returned" /\ ix.tag = "Transfer" /\ result = "Ok"
    /\ ix.amount > 0
    /\ accounts[3].key = "D"
    /\ AccountOf(data, accounts[1].key).owner = "B"

\* ------------------------------------------------------------------------
\* Burn
\* ------------------------------------------------------------------------
\* C12: a successful Burn(amount) is on an Account of the presented Mint
\* that holds at least amount; it lowers the amount of the Account and the
\* supply of the Mint by exactly amount and leaves the amount of every
\* other Account and the supply of every other Mint as they were.
C12_BurnExact ==
    [][(Returned /\ ix'.tag = "Burn" /\ result' = "Ok") =>
        LET a == accounts'[1].key
            m == accounts'[2].key
        IN  /\ a \in AccountKeys /\ m \in MintKeys
            /\ AccountOf(data, a).mint = m
            /\ ix'.amount <= AccountOf(data, a).amount
            /\ AccountOf(data', a).amount = AccountOf(data, a).amount - ix'.amount
            /\ MintOf(data', m).supply = MintOf(data, m).supply - ix'.amount
            /\ \A b \in AccountKeys \ {a} :
                   AccountOf(data', b).amount = AccountOf(data, b).amount
            /\ \A n \in MintKeys \ {m} :
                   MintOf(data', n).supply = MintOf(data, n).supply]_vars

\* A Burn of a positive amount succeeded while the other Account and the
\* other Mint hold tokens.
C12_Witness ==
    /\ pc = "returned" /\ ix.tag = "Burn" /\ result = "Ok"
    /\ ix.amount > 0
    /\ \E b \in AccountKeys \ {accounts[1].key} : AccountOf(data, b).amount > 0
    /\ \E n \in MintKeys \ {accounts[2].key} : MintOf(data, n).supply > 0

\* ------------------------------------------------------------------------
\* The delegate's allowance
\* ------------------------------------------------------------------------
\* The Transfer or Burn passes every check made before the authority is
\* looked at, and the record at position 3 is not the owner of the source
\* but its delegate, and has signed.
DelegatePath(dat, instruction, accts) ==
    /\ instruction.tag \in {"Transfer", "Burn"}
    /\ Len(accts) >= 3
    /\ accts[1].key \in AccountKeys /\ accts[1].is_writable
    /\ accts[2].is_writable
    /\ AccountOf(dat, accts[1].key).state = Initialized
    /\ IF instruction.tag = "Transfer"
       THEN /\ accts[2].key \in AccountKeys \ {accts[1].key}
            /\ AccountOf(dat, accts[2].key).state = Initialized
            /\ AccountOf(dat, accts[2].key).mint = AccountOf(dat, accts[1].key).mint
       ELSE /\ accts[2].key \in MintKeys
            /\ MintOf(dat, accts[2].key).is_initialized
            /\ AccountOf(dat, accts[1].key).mint = accts[2].key
    /\ instruction.amount <= AccountOf(dat, accts[1].key).amount
    /\ ~PresentedAuthorityValid(dat, AccountOf(dat, accts[1].key).owner, accts, 3)
    /\ is_some(AccountOf(dat, accts[1].key).delegate)
    /\ PresentedAuthorityValid(dat, unwrap(AccountOf(dat, accts[1].key).delegate), accts, 3)

\* C13: a Transfer or Burn authorized through the delegate fails with
\* InsufficientDelegatedAmount and changes nothing when amount exceeds
\* delegated_amount; otherwise it succeeds, lowers delegated_amount by
\* exactly amount, and sets delegate to none exactly when nothing is left.
C13_DelegateAllowance ==
    [][(Returned /\ DelegatePath(data, ix', accounts')) =>
        LET before == AccountOf(data, accounts'[1].key)
            after == AccountOf(data', accounts'[1].key)
        IN  IF ix'.amount > before.delegated_amount
            THEN result' = "InsufficientDelegatedAmount" /\ data' = data
            ELSE /\ result' = "Ok"
                 /\ after.delegated_amount = before.delegated_amount - ix'.amount
                 /\ after.delegate = IF after.delegated_amount = 0
                                     THEN None ELSE before.delegate]_vars

\* The delegate spent a part of its allowance and is still the delegate.
C13_Witness ==
    /\ pc = "returned" /\ ix.tag \in {"Transfer", "Burn"} /\ result = "Ok"
    /\ ix.amount > 0
    /\ accounts[3].key = "D"
    /\ AccountOf(data, accounts[1].key).owner = "B"
    /\ AccountOf(data, accounts[1].key).delegate = Some("D")
    /\ AccountOf(data, accounts[1].key).delegated_amount > 0

\* The delegate asked for more than its allowance, within the balance.
C13_WitnessRefused ==
    /\ pc = "returned" /\ ix.tag \in {"Transfer", "Burn"}
    /\ result = "InsufficientDelegatedAmount"
    /\ DelegatePath(data, ix, accounts)

\* ------------------------------------------------------------------------
\* Approve
\* ------------------------------------------------------------------------
\* C14: a successful Approve(amount) was presented by the owner of the
\* Account; it sets delegate to the key of the delegate record and
\* delegated_amount to amount, whatever they were, and changes no other
\* field of the Account, no other record and no lamports.
C14_ApproveExact ==
    [][(Returned /\ ix'.tag = "Approve" /\ result' = "Ok") =>
        LET a == accounts'[1].key
        IN  /\ a \in AccountKeys
            /\ PresentedAuthorityValid(data, AccountOf(data, a).owner, accounts', 3)
            /\ AccountOf(data', a) = [AccountOf(data, a) EXCEPT
                                         !.delegate = Some(accounts'[2].key),
                                         !.delegated_amount = ix'.amount]
            /\ \A k \in RecordKeys \ {a} : data'[k] = data[k]
            /\ lamports' = lamports]_vars

\* An Approve by the owner gave the whole balance to a second delegate.
C14_Witness ==
    /\ pc = "returned" /\ ix.tag = "Approve" /\ result = "Ok"
    /\ accounts[2].key = "A"
    /\ ix.amount = U64Max
    /\ AccountOf(data, "X").delegate = Some("A")
    /\ AccountOf(data, "X").delegated_amount = U64Max
    /\ AccountOf(data, "X").amount = U64Max

\* An Approve presented by the current delegate was refused.
C14_WitnessDelegate ==
    /\ pc = "returned" /\ ix.tag = "Approve" /\ result = "InvalidAuthority"
    /\ accounts[3].key = "D" /\ accounts[3].is_signer
    /\ AccountOf(data, accounts[1].key).delegate = Some("D")

\* ------------------------------------------------------------------------
\* Revoke
\* ------------------------------------------------------------------------
\* The Revoke passes its record checks and is presented by the owner.
RevokeAdmitted(dat, accts) ==
    /\ Len(accts) >= 2
    /\ accts[1].key \in AccountKeys /\ accts[1].is_writable
    /\ is_initialized(AccountOf(dat, accts[1].key))
    /\ PresentedAuthorityValid(dat, AccountOf(dat, accts[1].key).owner, accts, 2)

\* A Revoke succeeds exactly when it is admitted, and then sets delegate to
\* none and delegated_amount to 0 and changes nothing else.
RevokeExact ==
    (Returned /\ ix'.tag = "Revoke") =>
        /\ result' = "Ok" <=> RevokeAdmitted(data, accounts')
        /\ result' = "Ok" =>
            LET a == accounts'[1].key
            IN  /\ AccountOf(data', a) = [AccountOf(data, a) EXCEPT
                                             !.delegate = None,
                                             !.delegated_amount = 0]
                /\ \A k \in RecordKeys \ {a} : data'[k] = data[k]
                /\ lamports' = lamports

\* The call is a Transfer or Burn on the Account a presented by the key
\* that the last Revoke on a removed as delegate, no Approve since.
ByFormerDelegate(instruction, accts, a) ==
    /\ instruction.tag \in {"Transfer", "Burn"}
    /\ Len(accts) >= 3
    /\ accts[1].key = a
    /\ is_some(revoked[a])
    /\ accts[3].key = unwrap(revoked[a])

TransferRecordsValid(dat, accts) ==
    /\ Len(accts) >= 3
    /\ accts[1].key \in AccountKeys /\ accts[1].is_writable
    /\ accts[2].key \in AccountKeys /\ accts[2].is_writable
    /\ accts[1].key # accts[2].key
    /\ is_initialized(AccountOf(dat, accts[1].key))
    /\ is_initialized(AccountOf(dat, accts[2].key))

\* C16: from a successful FreezeAccount on an Account until a successful
\* ThawAccount on it, every Transfer out of it fails, with AccountFrozen
\* when its records are valid, and changes nothing; a ThawAccount succeeds
\* only for the freeze authority of the Mint and leaves the Account
\* Initialized; and a Transfer out of an Account that is not so frozen,
\* within the balance and presented by the owner, succeeds.
C16_FreezeBlocksOutflow ==
    [][\A a \in AccountKeys :
        /\ (/\ Returned /\ ix'.tag = "Transfer"
            /\ Len(accounts') >= 1 /\ accounts'[1].key = a
            /\ unthawed[a])
               => /\ result' # "Ok" /\ data' = data
                  /\ TransferRecordsValid(data, accounts') => result' = "AccountFrozen"
        /\ (/\ Returned /\ ix'.tag = "ThawAccount" /\ result' = "Ok"
            /\ accounts'[1].key = a)
               => /\ is_some(MintOf(data, accounts'[2].key).freeze_authority)
                  /\ PresentedAuthorityValid(data,
                         unwrap(MintOf(data, accounts'[2].key).freeze_authority),
                         accounts', 3)
                  /\ AccountOf(data', a).state = Initialized
        /\ (/\ Returned /\ ix'.tag = "Transfer"
            /\ Len(accounts') >= 1 /\ accounts'[1].key = a
            /\ ~unthawed[a]
            /\ TransferAdmitted(data, accounts')
            /\ PresentedAuthorityValid(data, AccountOf(data, a).owner, accounts', 3)
            /\ ix'.amount <= AccountOf(data, a).amount)
               => result' = "Ok"]_vars

\* ------------------------------------------------------------------------
\* Receiving while Frozen
\* ------------------------------------------------------------------------
\* The Transfer is within the balance of an Initialized source, presented
\* by its owner or delegate, into a Frozen destination of the same mint.
TransferIntoFrozen(dat, instruction, accts) ==
    /\ instruction.tag = "Transfer"
    /\ Len(accts) >= 3
    /\ accts[1].key \in AccountKeys /\ accts[1].is_writable
    /\ accts[2].key \in AccountKeys /\ accts[2].is_writable
    /\ accts[1].key # accts[2].key
    /\ AccountOf(dat, accts[1].key).state = Initialized
    /\ AccountOf(dat, accts[2].key).state = Frozen
    /\ AccountOf(dat, accts[1].key).mint = AccountOf(dat, accts[2].key).mint
    /\ instruction.amount <= AccountOf(dat, accts[1].key).amount
    /\ PresentedAuthorityValid(dat, AccountOf(dat, accts[1].key).owner, accts, 3)

\* The MintTo is presented by the mint authority, to a Frozen destination
\* of the Mint, and the supply has room for the amount.
MintToFrozen(dat, instruction, accts) ==
    /\ instruction.tag = "MintTo"
    /\ Len(accts) >= 3
    /\ accts[1].key \in MintKeys /\ accts[1].is_writable
    /\ accts[2].key \in AccountKeys /\ accts[2].is_writable
    /\ MintOf(dat, accts[1].key).is_initialized
    /\ AccountOf(dat, accts[2].key).state = Frozen
    /\ AccountOf(dat, accts[2].key).mint = accts[1].key
    /\ is_some(MintOf(dat, accts[1].key).mint_authority)
    /\ PresentedAuthorityValid(dat, unwrap(MintOf(dat, accts[1].key).mint_authority), accts, 3)
    /\ MintOf(dat, accts[1].key).supply + instruction.amount <= U64Max

\* C17: a Transfer into a Frozen destination and a MintTo to a Frozen
\* destination, valid in everything else, succeed and raise the amount of
\* the destination by the amount of the instruction.
C17_FrozenReceives ==
    [][(Returned /\ (TransferIntoFrozen(data, ix', accounts')
                     \/ MintToFrozen(data, ix', accounts'))) =>
        /\ result' = "Ok"
        /\ AccountOf(data', accounts'[2].key).amount
               = AccountOf(data, accounts'[2].key).amount + ix'.amount]_vars

\* The same for the Transfer alone.
C17_TransferIntoFrozen ==
    [][(Returned /\ TransferIntoFrozen(data, ix', accounts')) => result' = "Ok"]_vars

\* ------------------------------------------------------------------------
\* Closing while Frozen
\* ------------------------------------------------------------------------
\* C18: a CloseAccount on a Frozen Account fails and leaves all data and
\* lamports as they were.
C18_FrozenNotClosed ==
    [][(/\ Returned /\ ix'.tag = "CloseAccount"
        /\ Len(accounts') >= 1 /\ accounts'[1].key \in AccountKeys
        /\ is_frozen(AccountOf(data, accounts'[1].key)))
           => result' # "Ok" /\ data' = data /\ lamports' = lamports]_vars

\* ------------------------------------------------------------------------
\* Approve while Frozen
\* ------------------------------------------------------------------------
\* C19: an Approve on a Frozen source fails, with AccountFrozen when the
\* source record is writable, and leaves delegate and delegated_amount as
\* they were.
C19_ApproveFrozen ==
    [][(/\ Returned /\ ix'.tag = "Approve"
        /\ Len(accounts') >= 1 /\ accounts'[1].key \in AccountKeys
        /\ is_frozen(AccountOf(data, accounts'[1].key)))
           => /\ result' # "Ok"
              /\ (Len(accounts') >= 3 /\ accounts'[1].is_writable)
                     => result' = "AccountFrozen"
              /\ AccountOf(data', accounts'[1].key).delegate
                     = AccountOf(data, accounts'[1].key).delegate
              /\ AccountOf(data', accounts'[1].key).delegated_amount
                     = AccountOf(data, accounts'[1].key).delegated_amount]_vars

\* ------------------------------------------------------------------------
\* Multisig threshold
\* ------------------------------------------------------------------------
\* Position of the authority record in the record list of an instruction.
AuthorityAt(instruction) == IF instruction.tag = "SetAuthority" THEN 2 ELSE 3

\* The call is a MintTo or a SetAuthority(MintTokens) that reaches the
\* validation of its authority, the mint authority is the initialized
\* Multisig g, and g is the record presented.
MultisigCall(dat, instruction, accts, g) ==
    /\ \/ instruction.tag = "MintTo" /\ MintToRecordsValid(dat, accts)
       \/ /\ instruction.tag = "SetAuthority"
          /\ instruction.authority_type = MintTokens
          /\ FreezeRecordsValid(dat, instruction, accts)
    /\ Len(accts) >= AuthorityAt(instruction)
    /\ MintOf(dat, accts[1].key).mint_authority = Some(g)
    /\ accts[AuthorityAt(instruction)].key = g
    /\ MultisigOf(dat, g).is_initialized

\* The trailing records that are signed and whose key is one of the first
\* n signers of g.
CountedSigners(dat, instruction, accts, g) ==
    {i \in (AuthorityAt(instruction) + 1)..Len(accts) :
        /\ accts[i].is_signer
        /\ \E j \in 1..MultisigOf(dat, g).n : MultisigOf(dat, g).signers[j] = accts[i].key}

C20_WitnessUnusedSlot ==
    /\ pc = "returned" /\ result = "NotEnoughSigners"
    /\ MultisigCall(data, ix, accounts, "G")
    /\ MultisigOf(data, "G").m = 1
    /\ accounts[Len(accounts)] = Signed(ZeroKey)

\* A SetAuthority(MintTokens) against the Multisig was refused for want of
\* signers.
C20_WitnessSetAuthority ==
    /\ pc = "returned" /\ result = "NotEnoughSigners" /\ ix.tag = "SetAuthority"
    /\ MultisigCall(data, ix, accounts, "G")

\* A MintTo against the 2-of-2 Multisig passed with both members signed.
C20_WitnessPass ==
    /\ pc = "returned" /\ result = "Ok" /\ ix.tag = "MintTo"
    /\ Len(accounts) = 5 /\ accounts[3].key = "G"
    /\ MultisigOf(data, "G").m = 2
    /\ Cardinality({accounts[4].key, accounts[5].key}) = 2

\* ------------------------------------------------------------------------
\* Multisig configuration
\* ------------------------------------------------------------------------
\* The records of an InitializeMultisig pass every check made before the
\* numbers of signers and the threshold are looked at.
InitializeMultisigRecordsValid(lam, accts) ==
    /\ Len(accts) >= 2
    /\ accts[2].key = RentId
    /\ accts[1].key \in MultisigKeys /\ accts[1].is_writable
    /\ lam[accts[1].key] >= 1

\* m of n is a configuration InitializeMultisig accepts.
ValidMultisigConfig(m, n) == 1 <= m /\ m <= n /\ n <= MAX_SIGNERS

\* C21: an InitializeMultisig succeeds only with 1 <= m <= n <= 11, n being
\* the number of trailing signer records; with any other m and n it fails
\* with InvalidMultisigConfig and changes nothing; and every initialized
\* Multisig of the state reached satisfies 1 <= m <= n <= 11.
C21_MultisigConfig ==
    [][/\ (Returned /\ ix'.tag = "InitializeMultisig") =>
            /\ result' = "Ok" => ValidMultisigConfig(ix'.m, Len(accounts') - 2)
            /\ (/\ InitializeMultisigRecordsValid(lamports, accounts')
                /\ ~ValidMultisigConfig(ix'.m, Len(accounts') - 2))
                   => result' = "InvalidMultisigConfig" /\ data' = data /\ lamports' = lamports
       /\ \A g \in MultisigKeys :
            MultisigOf(data', g).is_initialized
                => ValidMultisigConfig(MultisigOf(data', g).m, MultisigOf(data', g).n)]_vars

\* An InitializeMultisig with MAX_SIGNERS + 1 signer records was refused.
C21_Witness ==
    /\ pc = "returned" /\ ix.tag = "InitializeMultisig"
    /\ result = "InvalidMultisigConfig"
    /\ Len(accounts) - 2 = MAX_SIGNERS + 1
    /\ ix.m = 1

\* An InitializeMultisig with m = n + 1 was refused.
C21_WitnessThreshold ==
    /\ pc = "returned" /\ ix.tag = "InitializeMultisig"
    /\ result = "InvalidMultisigConfig"
    /\ InitializeMultisigRecordsValid(lamports, accounts)
    /\ Len(accounts) - 2 = 2 /\ ix.m = 3

\* An 11-of-11 Multisig was initialized.
C21_WitnessFull ==
    /\ pc = "returned" /\ ix.tag = "InitializeMultisig" /\ result = "Ok"
    /\ MultisigOf(data, "G").is_initialized
    /\ MultisigOf(data, "G").m = MAX_SIGNERS /\ MultisigOf(data, "G").n = MAX_SIGNERS

\* C22: the enrolled signers of every initialized Multisig are pairwise
\* distinct.
C22_SignersUnique ==
    \A g \in MultisigKeys :
        MultisigOf(data, g).is_initialized =>
            \A i, j \in 1..MultisigOf(data, g).n :
                i # j => MultisigOf(data, g).signers[i] # MultisigOf(data, g).signers[j]

\* ------------------------------------------------------------------------
\* Closing
\* ------------------------------------------------------------------------
\* The records of a CloseAccount pass every check made before the balance
\* is looked at.
CloseRecordsValid(dat, accts) ==
    /\ Len(accts) >= 3
    /\ accts[1].key \in AccountKeys /\ accts[1].is_writable
    /\ accts[2].key \in RecordKeys /\ accts[2].is_writable
    /\ accts[1].key # accts[2].key
    /\ is_initialized(AccountOf(dat, accts[1].key))

\* The authority a CloseAccount on the Account a is validated against.
CloseAuthorityOf(dat, a) ==
    IF is_some(AccountOf(dat, a).close_authority)
    THEN unwrap(AccountOf(dat, a).close_authority)
    ELSE AccountOf(dat, a).owner

\* C23: a CloseAccount on an initialized Account whose amount is not 0
\* fails, with NonZeroBalance when its records are valid, and changes
\* nothing; on an Initialized Account whose amount is 0, presented by the
\* close authority with room for the lamports in the destination, it
\* succeeds.
C23_CloseNeedsZeroBalance ==
    [][(/\ Returned /\ ix'.tag = "CloseAccount"
        /\ Len(accounts') >= 1 /\ accounts'[1].key \in AccountKeys
        /\ is_initialized(AccountOf(data, accounts'[1].key))) =>
            IF AccountOf(data, accounts'[1].key).amount # 0
            THEN /\ result' # "Ok" /\ data' = data /\ lamports' = lamports
                 /\ CloseRecordsValid(data, accounts') => result' = "NonZeroBalance"
            ELSE (/\ CloseRecordsValid(data, accounts')
                  /\ AccountOf(data, accounts'[1].key).state = Initialized
                  /\ PresentedAuthorityValid(data, CloseAuthorityOf(data, accounts'[1].key),
                                             accounts', 3)
                  /\ lamports[accounts'[2].key] + lamports[accounts'[1].key] <= U64Max)
                     => result' = "Ok"]_vars

\* A CloseAccount presented by the owner on an Account that holds tokens
\* was refused.
C23_Witness ==
    /\ pc = "returned" /\ ix.tag = "CloseAccount" /\ result = "NonZeroBalance"
    /\ CloseRecordsValid(data, accounts)
    /\ AccountOf(data, accounts[1].key).amount > 0
    /\ PresentedAuthorityValid(data, CloseAuthorityOf(data, accounts[1].key), accounts, 3)

\* Under SpecLife, where tokens are minted to X only: X was closed after
\* all its tokens had been transferred to Y.
C23_WitnessDrained ==
    /\ pc = "returned" /\ ix.tag = "CloseAccount" /\ result = "Ok"
    /\ accounts[1].key = "X"
    /\ AccountOf(data, "Y").amount > 0

\* C24: a successful CloseAccount adds the lamports of the account to the
\* destination and leaves the account with 0 lamports and all-zero data,
\* which read as an Uninitialized Account, every other record being
\* untouched; when the sum would exceed U64Max the call fails with Overflow
\* and changes nothing.
C24_CloseExact ==
    [][(/\ Returned /\ ix'.tag = "CloseAccount") =>
        /\ result' = "Ok" =>
            LET a == accounts'[1].key
                d == accounts'[2].key
            IN  /\ lamports'[d] = lamports[d] + lamports[a]
                /\ lamports'[a] = 0
                /\ lamports'[a] + lamports'[d] = lamports[a] + lamports[d]
                /\ \A k \in RecordKeys \ {a, d} : lamports'[k] = lamports[k]
                /\ data'[a] = ZeroData(a)
                /\ AccountOf(data', a).state = Uninitialized
                /\ \A k \in RecordKeys \ {a} : data'[k] = data[k]
        /\ (/\ CloseRecordsValid(data, accounts')
            /\ AccountOf(data, accounts'[1].key).amount = 0
            /\ PresentedAuthorityValid(data, CloseAuthorityOf(data, accounts'[1].key),
                                       accounts', 3)
            /\ lamports[accounts'[2].key] + lamports[accounts'[1].key] > U64Max)
               => result' = "Overflow" /\ data' = data /\ lamports' = lamports]_vars

\* An Account was closed into a destination that held lamports.
C24_Witness ==
    /\ pc = "returned" /\ ix.tag = "CloseAccount" /\ result = "Ok"
    /\ lamports[accounts[1].key] = 0
    /\ lamports[accounts[2].key] > 1
    /\ data[accounts[1].key] = ZeroData(accounts[1].key)

\* A CloseAccount was refused because the destination had no room.
C24_WitnessOverflow ==
    /\ pc = "returned" /\ ix.tag = "CloseAccount" /\ result = "Overflow"
    /\ lamports[accounts[2].key] + lamports[accounts[1].key] > U64Max

\* ------------------------------------------------------------------------
\* Initialization guard
\* ------------------------------------------------------------------------
\* The call is an InitializeMint, InitializeAccount or InitializeMultisig,
\* valid in everything else, on the record k that is already initialized.
Reinitialization(lam, dat, instruction, accts, k) ==
    /\ Len(accts) >= 2
    /\ accts[1].key = k /\ accts[1].is_writable /\ lam[k] >= 1
    /\ \/ /\ instruction.tag = "InitializeMint"
          /\ accts[2].key = RentId
          /\ k \in MintKeys /\ MintOf(dat, k).is_initialized
       \/ /\ instruction.tag = "InitializeAccount"
          /\ Len(accts) >= 4 /\ accts[4].key = RentId
          /\ accts[2].key \in MintKeys /\ MintOf(dat, accts[2].key).is_initialized
          /\ k \in AccountKeys /\ AccountOf(dat, k).state \in {Initialized, Frozen}
       \/ /\ instruction.tag = "InitializeMultisig"
          /\ accts[2].key = RentId
          /\ ValidMultisigConfig(instruction.m, Len(accts) - 2)
          /\ k \in MultisigKeys /\ MultisigOf(dat, k).is_initialized

\* C25: an InitializeMint, InitializeAccount or InitializeMultisig valid in
\* everything else, on a record that is already initialized, fails with
\* AlreadyInitialized and changes nothing.
C25_InitializationGuard ==
    [][\A k \in RecordKeys :
        (Returned /\ Reinitialization(lamports, data, ix', accounts', k)) =>
            result' = "AlreadyInitialized" /\ data' = data /\ lamports' = lamports]_vars

\* An InitializeAccount on a Frozen Account was refused.
C25_Witness ==
    /\ pc = "returned" /\ ix.tag = "InitializeAccount" /\ result = "AlreadyInitialized"
    /\ Reinitialization(lamports, data, ix, accounts, accounts[1].key)
    /\ is_frozen(AccountOf(data, accounts[1].key))

\* An InitializeMint on a Mint with supply was refused.
C25_WitnessMint ==
    /\ pc = "returned" /\ ix.tag = "InitializeMint" /\ result = "AlreadyInitialized"
    /\ Reinitialization(lamports, data, ix, accounts, accounts[1].key)
    /\ MintOf(data, accounts[1].key).supply > 0

\* An InitializeMultisig on an initialized Multisig was refused.
C25_WitnessMultisig ==
    /\ pc = "returned" /\ ix.tag = "InitializeMultisig" /\ result = "AlreadyInitialized"
    /\ Reinitialization(lamports, data, ix, accounts, accounts[1].key)
    /\ MultisigOf(data, accounts[1].key).m # ix.m

\* ------------------------------------------------------------------------
\* Accounts are bound to initialized Mints
\* ------------------------------------------------------------------------
\* The records of an InitializeAccount pass every check made before the
\* Mint is loaded.
InitializeAccountRecordsValid(lam, accts) ==
    /\ Len(accts) >= 4
    /\ accts[4].key = RentId
    /\ accts[1].key \in AccountKeys /\ accts[1].is_writable
    /\ lam[accts[1].key] >= 1
    /\ accts[2].key \in MintKeys

\* C26: the mint of every initialized Account is an initialized Mint; an
\* InitializeAccount whose Mint is not initialized fails with
\* UninitializedAccount and changes nothing; a successful one writes the
\* Mint and the owner presented, amount 0, no delegate, delegated_amount 0,
\* no close authority and the state Initialized.
C26_AccountMintInitialized ==
    [][/\ \A a \in AccountKeys :
            is_initialized(AccountOf(data', a)) =>
                /\ AccountOf(data', a).mint \in MintKeys
                /\ MintOf(data', AccountOf(data', a).mint).is_initialized
       /\ (Returned /\ ix'.tag = "InitializeAccount") =>
            /\ (/\ InitializeAccountRecordsValid(lamports, accounts')
                /\ ~MintOf(data, accounts'[2].key).is_initialized)
                   => result' = "UninitializedAccount" /\ data' = data /\ lamports' = lamports
            /\ result' = "Ok" =>
                /\ AccountOf(data', accounts'[1].key)
                       = [mint |-> accounts'[2].key,
                          owner |-> accounts'[3].key,
                          amount |-> 0,
                          delegate |-> None,
                          state |-> Initialized,
                          is_native |-> None,
                          delegated_amount |-> 0,
                          close_authority |-> None]
                /\ \A k \in RecordKeys \ {accounts'[1].key} : data'[k] = data[k]
                /\ lamports' = lamports]_vars

\* An InitializeAccount against a Mint that is not initialized was refused
\* while another Mint is initialized.
C26_Witness ==
    /\ pc = "returned" /\ ix.tag = "InitializeAccount" /\ result = "UninitializedAccount"
    /\ InitializeAccountRecordsValid(lamports, accounts)
    /\ ~MintOf(data, accounts[2].key).is_initialized
    /\ \E m \in MintKeys : MintOf(data, m).is_initialized

\* Two Accounts are bound to two Mints.
C26_WitnessBound ==
    /\ is_initialized(AccountOf(data, "X")) /\ is_initialized(AccountOf(data, "Y"))
    /\ AccountOf(data, "X").mint # AccountOf(data, "Y").mint

\* ------------------------------------------------------------------------
\* Change of owner
\* ------------------------------------------------------------------------
\* The call is a SetAuthority(AccountOwner).
SetOwnerCall(instruction) ==
    instruction.tag = "SetAuthority" /\ instruction.authority_type = AccountOwner

\* The SetAuthority(AccountOwner) is on a writable initialized Account and
\* is presented by its owner.
SetOwnerAdmitted(dat, accts) ==
    /\ Len(accts) >= 2
    /\ accts[1].key \in AccountKeys /\ accts[1].is_writable
    /\ is_initialized(AccountOf(dat, accts[1].key))
    /\ PresentedAuthorityValid(dat, AccountOf(dat, accts[1].key).owner, accts, 2)

C27_WitnessNone ==
    /\ pc = "returned" /\ SetOwnerCall(ix) /\ result = "InvalidAuthority"
    /\ SetOwnerAdmitted(data, accounts)
    /\ ix.new_authority = None
    /\ is_some(AccountOf(data, accounts[1].key).delegate)

\* ------------------------------------------------------------------------
\* Mint binding
\* ------------------------------------------------------------------------
\* C28: a step that leaves an Account initialized leaves its mint
\* unchanged, and the only step that changes the mint of a record to a key
\* other than the zero key is a successful InitializeAccount on that record.
C28_MintBindingImmutable ==
    [][\A a \in AccountKeys :
        /\ (is_initialized(AccountOf(data, a)) /\ is_initialized(AccountOf(data', a)))
               => AccountOf(data', a).mint = AccountOf(data, a).mint
        /\ (/\ AccountOf(data', a).mint # AccountOf(data, a).mint
            /\ AccountOf(data', a).mint # ZeroKey)
               => /\ Returned /\ ix'.tag = "InitializeAccount" /\ result' = "Ok"
                  /\ accounts'[1].key = a
                  /\ AccountOf(data', a).mint = accounts'[2].key]_vars

\* Both Accounts are bound to M, tokens have moved between them, and one of
\* them is Frozen with a delegate.
C28_Witness ==
    /\ AccountOf(data, "X").mint = "M" /\ AccountOf(data, "Y").mint = "M"
    /\ AccountOf(data, "Y").amount > 0
    /\ is_frozen(AccountOf(data, "X"))
    /\ is_some(AccountOf(data, "X").delegate)

\* ------------------------------------------------------------------------
\* Instruction codec
\* ------------------------------------------------------------------------
\* C29: unpacking the bytes that pack produced for a TokenInstruction value
\* returns that value.
C29_InstructionRoundTrip ==
    pc = "roundtrip" => parsed = Ok(ix)

\* A SetAuthority with a new key went through pack and unpack.
C29_Witness ==
    /\ pc = "roundtrip" /\ ix.tag = "SetAuthority"
    /\ ix.authority_type = CloseAccount
    /\ is_some(ix.new_authority)
    /\ parsed.ok /\ parsed.val = ix
    /\ Len(wire) = 3 + PubkeyBytes

\* An amount that needs more than one byte went through pack and unpack.
C29_WitnessAmount ==
    /\ pc = "roundtrip" /\ ix.tag = "Transfer" /\ ix.amount = 256
    /\ parsed.ok /\ parsed.val = ix
    /\ wire = <<3, 0, 1>> \o [i \in 1..(U64Bytes - 2) |-> 0]

\* C30: packing the value that unpack returned for instruction data gives
\* that instruction data back.
C30_CodecSymmetry ==
    [][(pc = "unpacked" /\ pc' = "repacked") => wire' = wire]_vars

\* ------------------------------------------------------------------------
\* Record codec
\* ------------------------------------------------------------------------
\* A Multisig value that Multisig::unpack accepts.
WellFormedRecord(r) ==
    r.kind = "Multisig" =>
        /\ r.val.n <= MAX_SIGNERS
        /\ r.val.m <= r.val.n
        /\ (r.val.is_initialized => r.val.m >= 1)

\* C31: pack writes 82 bytes for a Mint, 165 for an Account and 355 for a
\* Multisig, and unpacking the bytes written for a well-formed value returns
\* that value.
C31_RecordRoundTrip ==
    /\ pc \in {"recordpacked", "recordroundtrip"} => Len(wire) = Record_LEN(record.kind)
    /\ pc = "recordroundtrip" /\ WellFormedRecord(record) => parsed = Ok(record.val)

\* A Frozen Account with a delegate and a native amount went through pack
\* and unpack.
C31_Witness ==
    /\ pc = "recordroundtrip" /\ record.kind = "Account"
    /\ record.val.state = Frozen
    /\ is_some(record.val.delegate) /\ record.val.is_native = Some(256)
    /\ record.val.close_authority = None
    /\ record.val.amount = 1000000000
    /\ Len(wire) = 165
    /\ parsed.ok /\ parsed.val = record.val

\* A Mint without authorities went through pack and unpack.
C31_WitnessMint ==
    /\ pc = "recordroundtrip" /\ record.kind = "Mint"
    /\ record.val.mint_authority = None /\ record.val.freeze_authority = None
    /\ record.val.is_initialized
    /\ Len(wire) = 82
    /\ parsed.ok /\ parsed.val = record.val

\* An initialized 11-of-11 Multisig went through pack and unpack.
C31_WitnessMultisig ==
    /\ pc = "recordroundtrip" /\ record.kind = "Multisig"
    /\ record.val.m = MAX_SIGNERS /\ record.val.n = MAX_SIGNERS
    /\ record.val.is_initialized
    /\ record.val.signers[MAX_SIGNERS] # Zeros(32)
    /\ Len(wire) = 355
    /\ parsed.ok /\ parsed.val = record.val

\* A Multisig value that is not well formed is refused by unpack.
C31_WitnessRefused ==
    /\ pc = "recordroundtrip" /\ record.kind = "Multisig"
    /\ ~WellFormedRecord(record)
    /\ parsed = Er("InvalidMultisigConfig")

\* ------------------------------------------------------------------------
\* Authority type detection
\* ------------------------------------------------------------------------
\* What the validation of the record a against the key e returns when a is
\* taken for a Multisig: the signed trailing records that are members count.
MultisigPathResult(dat, instruction, accts, e) ==
    LET a == accts[AuthorityAt(instruction)]
    IN  IF a.key # e THEN "InvalidAuthority"
        ELSE IF ~MultisigOf(dat, a.key).is_initialized THEN "UninitializedAccount"
        ELSE IF Cardinality(CountedSigners(dat, instruction, accts, a.key))
                    < MultisigOf(dat, a.key).m
        THEN "NotEnoughSigners"
        ELSE "Ok"

\* What it returns when a is taken for a single signer.
SingleSignerPathResult(instruction, accts, e) ==
    LET a == accts[AuthorityAt(instruction)]
    IN  IF a.key # e THEN "InvalidAuthority"
        ELSE IF ~a.is_signer THEN "MissingRequiredSignature"
        ELSE "Ok"

\* A SetAuthority(MintTokens) that reaches the validation of its authority.
DetectionCall(dat, instruction, accts) ==
    /\ instruction.tag = "SetAuthority" /\ instruction.authority_type = MintTokens
    /\ FreezeRecordsValid(dat, instruction, accts)
    /\ is_some(MintOf(dat, accts[1].key).mint_authority)

\* The same records with the is_signer flag of the authority record turned.
AuthorityFlagTurned(instruction, accts) ==
    [accts EXCEPT ![AuthorityAt(instruction)].is_signer = ~@]

\* C32: the authority is validated as a Multisig exactly when its record has
\* the length of a Multisig and is owned by the program, as a single signer
\* in every other case; as a Multisig, its own is_signer flag does not
\* change the outcome.
C32_AuthorityDetection ==
    [][(Returned /\ DetectionCall(data, ix', accounts')) =>
        LET a == accounts'[2]
            e == unwrap(MintOf(data, accounts'[1].key).mint_authority)
        IN  IF DataLen(a.key) = MultisigLEN /\ OwnerOf(a.key) = ProgramId
            THEN /\ result' = MultisigPathResult(data, ix', accounts', e)
                 /\ Process(lamports, data, ProgramId,
                            AuthorityFlagTurned(ix', accounts'), ix').res = result'
            ELSE result' = SingleSignerPathResult(ix', accounts', e)]_vars

\* The record of Multisig length that another program owns, being the mint
\* authority, passed on its own signature.
C32_Witness ==
    /\ pc = "returned" /\ result = "Ok" /\ ix.tag = "SetAuthority"
    /\ accounts = <<Writable("M"), Signed("H")>>
    /\ DataLen("H") = MultisigLEN /\ OwnerOf("H") # ProgramId

\* That record, unsigned, was refused although both members of G signed.
C32_WitnessForeignUnsigned ==
    /\ pc = "returned" /\ result = "MissingRequiredSignature"
    /\ accounts = <<Writable("M"), Unsigned("H"), Signed("A"), Signed("B")>>
    /\ MultisigOf(data, "G").is_initialized

\* The Multisig passed without the signature of its own record.
C32_WitnessMultisig ==
    /\ pc = "returned" /\ result = "Ok" /\ ix.tag = "SetAuthority"
    /\ accounts = <<Writable("M"), Unsigned("G"), Signed("A"), Signed("B")>>
    /\ MultisigOf(data, "G").m = 2

\* The signed record of the Multisig alone did not pass.
C32_WitnessMultisigSigned ==
    /\ pc = "returned" /\ result = "NotEnoughSigners"
    /\ accounts = <<Writable("M"), Signed("G")>>

\* A record the program owns that has not the length of a Multisig passed as
\* a single signer.
C32_WitnessProgramOwned ==
    /\ pc = "returned" /\ result = "Ok" /\ ix.tag = "SetAuthority"
    /\ accounts[2] = Signed("N") /\ OwnerOf("N") = ProgramId

\* ------------------------------------------------------------------------
\* Owner or delegate
\* ------------------------------------------------------------------------
\* C33: a successful Transfer or Burn presented by an authority that
\* validates as the owner of the source leaves delegate and
\* delegated_amount as they were, also when the owner's key is the
\* delegate; otherwise the presenter validates as the delegate and the
\* allowance is lowered by the amount.
C33_OwnerFirst ==
    [][(Returned /\ ix'.tag \in {"Transfer", "Burn"} /\ result' = "Ok") =>
        LET before == AccountOf(data, accounts'[1].key)
            after == AccountOf(data', accounts'[1].key)
        IN  IF PresentedAuthorityValid(data, before.owner, accounts', 3)
            THEN /\ after.delegate = before.delegate
                 /\ after.delegated_amount = before.delegated_amount
            ELSE /\ is_some(before.delegate)
                 /\ PresentedAuthorityValid(data, unwrap(before.delegate), accounts', 3)
                 /\ after.delegated_amount = before.delegated_amount - ix'.amount]_vars

\* The owner B, who is also the approved delegate, has transferred 1 and the
\* allowance of 1 is still there.
C33_Witness ==
    /\ pc = "returned" /\ result = "Ok" /\ ix.tag = "Transfer" /\ ix.amount = 1
    /\ accounts[1].key = "X" /\ accounts[3] = Signed("B")
    /\ AccountOf(data, "X").owner = "B"
    /\ AccountOf(data, "X").delegate = Some("B")
    /\ AccountOf(data, "X").delegated_amount = 1

\* The delegate D has burned the allowance of 1.
C33_WitnessDelegate ==
    /\ pc = "returned" /\ result = "Ok" /\ ix.tag = "Burn" /\ ix.amount = 1
    /\ accounts[1].key = "X" /\ accounts[3] = Signed("D")
    /\ AccountOf(data, "X").owner # "D"
    /\ AccountOf(data, "X").delegate = None
    /\ AccountOf(data, "X").delegated_amount = 0

\* The Transfer or Burn passes every check made before the authority is
\* validated.
OutflowReachesAuthority(dat, instruction, accts) ==
    /\ instruction.tag \in {"Transfer", "Burn"}
    /\ Len(accts) >= 3
    /\ accts[1].key \in AccountKeys /\ accts[1].is_writable
    /\ accts[2].is_writable
    /\ AccountOf(dat, accts[1].key).state = Initialized
    /\ AccountOf(dat, accts[1].key).amount >= instruction.amount
    /\ IF instruction.tag = "Transfer"
       THEN /\ accts[2].key \in AccountKeys \ {accts[1].key}
            /\ AccountOf(dat, accts[2].key).state = Initialized
            /\ AccountOf(dat, accts[2].key).mint = AccountOf(dat, accts[1].key).mint
       ELSE /\ accts[2].key \in MintKeys
            /\ MintOf(dat, accts[2].key).is_initialized
            /\ AccountOf(dat, accts[1].key).mint = accts[2].key

\* The presenter validates neither as the owner nor as the delegate.
NeitherValid(dat, accts) ==
    LET source == AccountOf(dat, accts[1].key)
    IN  /\ ~PresentedAuthorityValid(dat, source.owner, accts, 3)
        /\ ~(is_some(source.delegate)
             /\ PresentedAuthorityValid(dat, unwrap(source.delegate), accts, 3))

\* C34: a Transfer or Burn whose presenter validates neither as owner nor as
\* delegate fails with InvalidAuthority, whatever made the validations fail,
\* and changes nothing.
C34_NeitherIsInvalidAuthority ==
    [][(/\ Returned /\ OutflowReachesAuthority(data, ix', accounts')
        /\ NeitherValid(data, accounts'))
           => result' = "InvalidAuthority" /\ data' = data /\ lamports' = lamports]_vars

\* The owner's key was presented without its signature.
C34_Witness ==
    /\ pc = "returned" /\ result = "InvalidAuthority" /\ ix.tag = "Transfer"
    /\ OutflowReachesAuthority(data, ix, accounts)
    /\ accounts[3] = Unsigned("B") /\ AccountOf(data, "X").owner = "B"

\* The 2-of-2 Multisig that owns the source was presented with one signer.
C34_WitnessMultisig ==
    /\ pc = "returned" /\ result = "InvalidAuthority" /\ ix.tag = "Burn"
    /\ OutflowReachesAuthority(data, ix, accounts)
    /\ accounts[3].key = "G" /\ AccountOf(data, "X").owner = "G"
    /\ Len(accounts) = 4 /\ MultisigOf(data, "G").m = 2

\* A key that is neither owner nor delegate was presented, signed.
C34_WitnessWrongKey ==
    /\ pc = "returned" /\ result = "InvalidAuthority" /\ ix.tag = "Transfer"
    /\ OutflowReachesAuthority(data, ix, accounts)
    /\ accounts[3] = Signed("A")
    /\ AccountOf(data, "X").owner = "B" /\ AccountOf(data, "X").delegate = Some("D")

\* ------------------------------------------------------------------------
\* Order of the checks of Transfer
\* ------------------------------------------------------------------------
\* The first check of one record that fails: ownership, writability, length.
RecordVerdict(a) ==
    IF OwnerOf(a.key) # ProgramId THEN "InvalidAccountOwner"
    ELSE IF ~a.is_writable THEN "InvalidAccountData"
    ELSE IF DataLen(a.key) # AccountLEN THEN "InvalidAccountDataLength"
    ELSE "Ok"

\* The result of a Transfer of three records or more, by the order of the
\* checks.
TransferVerdict(dat, accts, amount) ==
    IF RecordVerdict(accts[1]) # "Ok" THEN RecordVerdict(accts[1])
    ELSE IF RecordVerdict(accts[2]) # "Ok" THEN RecordVerdict(accts[2])
    ELSE IF accts[1].key = accts[2].key THEN "SelfTransfer"
    ELSE
    LET source == AccountOf(dat, accts[1].key)
        dest == AccountOf(dat, accts[2].key)
    IN  IF source.state = Uninitialized \/ dest.state = Uninitialized
        THEN "UninitializedAccount"
        ELSE IF source.state = Frozen \/ dest.state = Frozen THEN "AccountFrozen"
        ELSE IF source.mint # dest.mint THEN "MintMismatch"
        ELSE IF source.amount < amount THEN "InsufficientFunds"
        ELSE IF PresentedAuthorityValid(dat, source.owner, accts, 3) THEN "Ok"
        ELSE IF ~(is_some(source.delegate)
                  /\ PresentedAuthorityValid(dat, unwrap(source.delegate), accts, 3))
        THEN "InvalidAuthority"
        ELSE IF source.delegated_amount < amount THEN "InsufficientDelegatedAmount"
        ELSE "Ok"

\* C35: a Transfer returns the error of the first check that fails, in the
\* order records, SelfTransfer, UninitializedAccount, AccountFrozen,
\* MintMismatch, InsufficientFunds, authority, InsufficientDelegatedAmount;
\* beyond the balance of the source it returns InsufficientFunds whoever
\* presents it.
C35_TransferCheckOrder ==
    [][(Returned /\ ix'.tag = "Transfer" /\ Len(accounts') >= 3)
           => result' = TransferVerdict(data, accounts', ix'.amount)]_vars

\* A Transfer beyond the balance, presented by a key that is neither owner
\* nor delegate, was refused for the balance.
C35_Witness ==
    /\ pc = "returned" /\ result = "InsufficientFunds" /\ ix.tag = "Transfer"
    /\ accounts = <<Writable("X"), Writable("Y"), Signed("A")>>
    /\ AccountOf(data, "X").owner = "B" /\ AccountOf(data, "X").delegate = Some("D")
    /\ ix.amount > AccountOf(data, "X").amount
    /\ AccountOf(data, "X").mint = AccountOf(data, "Y").mint

\* A Transfer beyond the balance between Accounts of two Mints was refused
\* for the Mints.
C35_WitnessMintMismatch ==
    /\ pc = "returned" /\ result = "MintMismatch" /\ ix.tag = "Transfer"
    /\ ix.amount > AccountOf(data, accounts[1].key).amount
    /\ accounts[3] = Signed("A")

\* A Transfer out of a Frozen source into an Account of another Mint was
\* refused for the freeze.
C35_WitnessFrozen ==
    /\ pc = "returned" /\ result = "AccountFrozen" /\ ix.tag = "Transfer"
    /\ AccountOf(data, "X").state = Frozen
    /\ AccountOf(data, "Y").state = Initialized
    /\ AccountOf(data, "X").mint # AccountOf(data, "Y").mint

\* A Transfer of a Frozen Account to itself was refused as SelfTransfer.
C35_WitnessSelf ==
    /\ pc = "returned" /\ result = "SelfTransfer"
    /\ accounts[1].key = "X" /\ AccountOf(data, "X").state = Frozen

\* The delegate was refused for the allowance, the balance sufficing.
C35_WitnessAllowance ==
    /\ pc = "returned" /\ result = "InsufficientDelegatedAmount"
    /\ accounts[3] = Signed("D")
    /\ ix.amount <= AccountOf(data, "X").amount

\* ------------------------------------------------------------------------
\* Duplicate signer records
\* ------------------------------------------------------------------------
\* The keys enrolled in the first n slots of the Multisig g.
EnrolledKeys(dat, g) ==
    {MultisigOf(dat, g).signers[j] : j \in 1..MultisigOf(dat, g).n}

\* The number of signed records after the authority that carry the key k.
SignedPresentations(instruction, accts, k) ==
    Cardinality({i \in (AuthorityAt(instruction) + 1)..Len(accts) :
                    accts[i].is_signer /\ accts[i].key = k})

\* The presentations of all the keys of a set, added up.
RECURSIVE TotalPresentations(_, _, _)
TotalPresentations(instruction, accts, keys) ==
    IF keys = {} THEN 0
    ELSE LET k == CHOOSE x \in keys : TRUE
         IN  SignedPresentations(instruction, accts, k)
                 + TotalPresentations(instruction, accts, keys \ {k})

C36_WitnessOnce ==
    /\ pc = "returned" /\ result = "NotEnoughSigners" /\ ix.tag = "MintTo"
    /\ accounts = <<Writable("M"), Writable("X"), Unsigned("G"), Signed("A")>>
    /\ MultisigOf(data, "G").m = 2 /\ MultisigOf(data, "G").n = 2

\* ------------------------------------------------------------------------
\* Close authority
\* ------------------------------------------------------------------------
\* A CloseAccount (authority third) or a SetAuthority(CloseAccount)
\* (authority second) on an Initialized Account with valid records.
CloseAuthorityCall(dat, instruction, accts) ==
    /\ \/ /\ instruction.tag = "CloseAccount"
          /\ CloseRecordsValid(dat, accts)
          /\ AccountOf(dat, accts[1].key).amount = 0
       \/ /\ instruction.tag = "SetAuthority" /\ instruction.authority_type = CloseAccount
          /\ Len(accts) >= 2
          /\ accts[1].key \in AccountKeys /\ accts[1].is_writable
    /\ AccountOf(dat, accts[1].key).state = Initialized

\* C37: CloseAccount and SetAuthority(CloseAccount) succeed exactly for the
\* close authority when one is set, for the owner when none is; and a
\* SetAuthority(AccountOwner) leaves the close authority as it was.
C37_CloseAuthorityReplacesOwner ==
    [][/\ (Returned /\ CloseAuthorityCall(data, ix', accounts')) =>
            LET a == accounts'[1].key
            IN  IF PresentedAuthorityValid(data, CloseAuthorityOf(data, a), accounts',
                                           AuthorityAt(ix'))
                THEN /\ ix'.tag = "SetAuthority" => result' = "Ok"
                     /\ (/\ ix'.tag = "CloseAccount"
                         /\ lamports[accounts'[2].key] + lamports[a] <= U64Max)
                            => result' = "Ok"
                ELSE result' # "Ok" /\ data' = data /\ lamports' = lamports
       /\ (/\ Returned /\ ix'.tag = "SetAuthority" /\ ix'.authority_type = AccountOwner
           /\ Len(accounts') >= 1 /\ accounts'[1].key \in AccountKeys)
              => AccountOf(data', accounts'[1].key).close_authority
                     = AccountOf(data, accounts'[1].key).close_authority]_vars

\* The owner B could not close the Account whose close authority is A.
C37_Witness ==
    /\ pc = "returned" /\ result = "InvalidAuthority" /\ ix.tag = "CloseAccount"
    /\ accounts = <<Writable("X"), Writable("D"), Signed("B")>>
    /\ AccountOf(data, "X").owner = "B"
    /\ AccountOf(data, "X").close_authority = Some("A")
    /\ AccountOf(data, "X").amount = 0

\* The owner B could not change the close authority A.
C37_WitnessSetAuthority ==
    /\ pc = "returned" /\ result = "InvalidAuthority"
    /\ ix.tag = "SetAuthority" /\ ix.authority_type = CloseAccount
    /\ accounts = <<Writable("X"), Signed("B")>>
    /\ AccountOf(data, "X").owner = "B"
    /\ AccountOf(data, "X").close_authority = Some("A")

\* The close authority A, not the owner, has closed the Account.
C37_WitnessClosed ==
    /\ pc = "returned" /\ result = "Ok" /\ ix.tag = "CloseAccount"
    /\ accounts = <<Writable("X"), Writable("D"), Signed("A")>>
    /\ AccountOf(data, "X").state = Uninitialized /\ lamports["X"] = 0

\* The owner was changed to D and the close authority A stayed.
C37_WitnessOwnerChanged ==
    /\ pc = "returned" /\ result = "Ok"
    /\ ix.tag = "SetAuthority" /\ ix.authority_type = AccountOwner
    /\ AccountOf(data, "X").owner = "D"
    /\ AccountOf(data, "X").close_authority = Some("A")

\* ------------------------------------------------------------------------
\* Allowance over sequences
\* ------------------------------------------------------------------------
\* C38: what the delegate has moved out of an Account by Transfer and Burn
\* since the last successful Approve on it is at most the amount approved,
\* and nothing without an Approve or after a Revoke or a change of owner.
C38_AllowanceCap ==
    \A a \in AccountKeys : allowance[a].moved <= allowance[a].approved

\* The delegate has used up an allowance of U64Max in more than one step and
\* is refused a further token that the Account holds.
C38_Witness ==
    /\ pc = "returned" /\ result = "InvalidAuthority" /\ ix.tag = "Transfer"
    /\ accounts = <<Writable("X"), Writable("Y"), Signed("D")>>
    /\ allowance["X"] = [approved |-> U64Max, moved |-> U64Max]
    /\ ix.amount = 1 /\ AccountOf(data, "X").amount >= 1

\* The delegate is refused an amount beyond what is left of the allowance.
C38_WitnessLeft ==
    /\ pc = "returned" /\ result = "InsufficientDelegatedAmount"
    /\ allowance["X"].approved = U64Max /\ allowance["X"].moved = 1
    /\ ix.amount = U64Max /\ AccountOf(data, "X").amount >= U64Max

\* The delegate has moved tokens by a Transfer and by a Burn under one
\* allowance.
C38_WitnessBoth ==
    /\ pc = "returned" /\ result = "Ok" /\ ix.tag = "Burn" /\ ix.amount = 1
    /\ allowance["X"].moved = 2
    /\ AccountOf(data, "Y").amount = 1

\* ---- C39: permanent freeze ------------------------------------------------

\* A ThawAccount on the Account a with its own Mint has returned.
ThawReturned(a) ==
    /\ pc = "returned"
    /\ ix.tag = "ThawAccount"
    /\ Len(accounts) >= 3
    /\ accounts[1].key = a
    /\ accounts[2].key = "M"

\* Once sealed, every ThawAccount on the Account is refused with
\* FreezeAuthorityRequired.
SealedThawRefused ==
    \A a \in AccountKeys :
        is_some(sealed[a]) /\ ThawReturned(a) => result = "FreezeAuthorityRequired"

\* Once sealed, the Account is never in state Initialized.
SealedNeverInitialized ==
    \A a \in AccountKeys :
        is_some(sealed[a]) => AccountOf(data, a).state # Initialized

\* An Account sealed with tokens keeps its amount.
SealedAmountKept ==
    \A a \in AccountKeys :
        is_some(sealed[a]) /\ unwrap(sealed[a]) > 0
            => AccountOf(data, a).amount = unwrap(sealed[a])

\* An Account sealed with tokens stays Frozen, and a ThawAccount on it is
\* refused with FreezeAuthorityRequired.
SealedWithTokensStays ==
    \A a \in AccountKeys :
        is_some(sealed[a]) /\ unwrap(sealed[a]) > 0
            => /\ AccountOf(data, a).state = Frozen
               /\ (ThawReturned(a) => result = "FreezeAuthorityRequired")

\* C39: once SetAuthority(FreezeAccount, none) has succeeded on a Mint while
\* an Account of that Mint was Frozen, every later ThawAccount on the Account
\* fails with FreezeAuthorityRequired, the Account is never again in state
\* Initialized, and an amount above 0 stays what it was.
C39_PermanentFreeze ==
    /\ SealedThawRefused
    /\ SealedNeverInitialized
    /\ SealedAmountKept

\* The Account X was sealed empty and is in state Initialized again.
C39_WitnessRevived ==
    /\ sealed["X"] = Some(0)
    /\ AccountOf(data, "X").state = Initialized

\* The Account X was sealed with a token and a ThawAccount on it was refused.
C39_WitnessThawRefused ==
    /\ sealed["X"] = Some(1)
    /\ ThawReturned("X")
    /\ result = "FreezeAuthorityRequired"

\* ---- C40: the arithmetic of Transfer and Burn ------------------------------

\* Every initialized Account holds at most the supply of its Mint.
AmountsWithinSupply ==
    \A a \in AccountKeys :
        LET account == AccountOf(data, a)
        IN  is_initialized(account)
                => /\ account.mint \in MintKeys
                   /\ account.amount <= MintOf(data, account.mint).supply

\* C40: from zeroed records, every Account's amount stays at most its Mint's
\* supply; no Transfer returns Overflow, and a Burn returns
\* InsufficientFunds only for an amount above the Account's balance, never
\* for the subtraction from the supply.
C40_ArithmeticUnreachable ==
    [][/\ AmountsWithinSupply'
       /\ (Returned /\ ix'.tag = "Transfer" => result' # "Overflow")
       /\ (Returned /\ ix'.tag = "Burn" /\ result' = "InsufficientFunds"
               => AccountOf(data, accounts'[1].key).amount < ix'.amount)]_vars

\* A Transfer has raised the destination to U64Max, the whole supply.
C40_Witness ==
    /\ pc = "returned"
    /\ ix.tag = "Transfer"
    /\ ix.amount > 0
    /\ result = "Ok"
    /\ AccountOf(data, accounts[2].key).amount = U64Max
    /\ MintOf(data, AccountOf(data, accounts[2].key).mint).supply = U64Max

\* A Burn has taken the whole supply of U64Max from one Account.
C40_WitnessBurn ==
    /\ pc = "returned"
    /\ ix.tag = "Burn"
    /\ ix.amount = U64Max
    /\ result = "Ok"
    /\ MintOf(data, accounts[2].key).supply = 0

\* A MintTo beyond U64Max is refused for the supply.
C40_WitnessMintRefused ==
    /\ pc = "returned"
    /\ ix.tag = "MintTo"
    /\ result = "Overflow"
    /\ AccountOf(data, accounts[2].key).amount < U64Max

====
